---- MODULE Spec2Model ----
(***************************************************************************)
(* Model of mg_migrate's relational-to-graph migration, of the statements *)
(* its destination primitives build (SpecStatements), of the graph-to-     *)
(* graph migration as the destination client sees it (SpecGraph), of the   *)
(* writer class MemgraphDestination (SpecDestination), of PostgresqlClient *)
(* (SpecSqlClient), of the grouping loops of the reflectors and the naming *)
(* of tables (SpecReflect), of main's handling of the command line         *)
(* (SpecMain) and of the conversion of source cells (SpecConvert).         *)
(*                                                                         *)
(* The state machine follows MigrateSqlDatabase (main.cpp): the node pass, *)
(* the edge pass, the staging-index cleanup and the constraint pass, with  *)
(* one action per loop step or row callback.  The SchemaInfo the run works *)
(* on is assembled the way GetSchemaInfo assembles it, from a small source *)
(* catalog drawn in Init.  The rows the source streams and the answers of  *)
(* the destination server are inputs, drawn with \E in the actions.        *)
(*                                                                         *)
(* Vectors are 1-based here (0-based in the C++ code).  An mg::Map is a    *)
(* sequence of <<key, value>> pairs in insertion order (InsertUnsafe never *)
(* looks for an existing key).  A std::set<std::string> is a set.          *)
(***************************************************************************)
EXTENDS Integers, Sequences, FiniteSets, TLC

VARIABLES
  schema,      \* the SchemaInfo returned by source->GetSchemaInfo()
  pc,          \* the loop of MigrateSqlDatabase the run is in
  ti,          \* index of the table the current loop is at
  ci,          \* index of the constraint the current loop is at
  cur,         \* the row the node-table edge callback is working on
  fi,          \* position of that callback in table.foreign_keys
  fetched,     \* number of rows the source has streamed so far
  log,         \* the calls made on the destination, in order
  answer,      \* what the latest call on the destination came back with
  delivered,   \* the rows handed to row callbacks, in order
  classified,  \* per table, the branch the node pass took for it
  graph,       \* what a Memgraph source holds (graph-to-graph migration)
  stream,      \* the result stream of the destination client
  strict,      \* whether the client refuses Execute while a stream is open
  created_internal_index_,  \* the flag of class MemgraphDestination
  cursor_,     \* the open cursor of PostgresqlClient, if any
  work_        \* whether PostgresqlClient holds a transaction

\* The variables only the graph-to-graph migration works on.
graph_vars == <<graph, stream, strict, created_internal_index_>>

\* The members of PostgresqlClient.
sql_client_vars == <<cursor_, work_>>

vars == <<schema, pc, ti, ci, cur, fi, fetched, log, answer, delivered,
          classified, graph_vars, sql_client_vars>>

\* ---------------------------------------------------------------- bounds

\* Rows the source streams during one run (all ReadTable calls together).
MaxRows == 2

\* A Memgraph source without vertices and relationships.
NoGraph == [vertices |-> 0, relationships |-> 0]

\* The client's result stream: no statement under execution.
NoStream == [open |-> FALSE, rows |-> <<>>]

\* std::optional<pqxx::stateless_cursor>: no cursor, or the rows the cursor
\* has still to deliver.
NoCursor == [has_value |-> FALSE, rows |-> <<>>]

\* A PostgresqlClient as Connect returns it; the migrations are modelled
\* above the client and leave it as it is.
NoSqlClient ==
  /\ cursor_ = NoCursor
  /\ work_ = FALSE

\* The relational migration has no Memgraph source and looks at the
\* destination through the calls it makes only.
NoMemgraph ==
  /\ graph = NoGraph
  /\ stream = NoStream
  /\ strict = TRUE
  /\ created_internal_index_ = FALSE

\* Counts the destination may return for RETURN COUNT(u): none, exactly one,
\* more than one.
Counts == 0..2

\* ---------------------------------------------------------------- values

Null == [type |-> "Null"]

Str(s) == [type |-> "String", str |-> s]

NoRow == <<>>

\* ------------------------------------------------------- the source side

\* The base tables of the source, in the order ListAllTables returns them,
\* each with its columns in ordinal position.
CatalogTables ==
  << [schema |-> "public", name |-> "actors",
      columns |-> <<"actor_id", "name">>],
     [schema |-> "public", name |-> "movies",
      columns |-> <<"movie_id", "title">>],
     [schema |-> "imdb", name |-> "roles",
      columns |-> <<"actor_id", "movie_id", "characters">>] >>

\* Primary keys a table of the catalog may declare (column indexes, in the
\* order the metadata query lists them).
PrimaryKeyChoices(t) ==
  CASE t = 1 -> {<<1>>}
    [] t = 2 -> {<<1>>}
    [] OTHER -> {<<>>, <<2, 1>>}

\* Foreign keys the source may declare, in constraint-name order.
CatalogForeignKeys ==
  << [child_table |-> 3, parent_table |-> 1,
      child_columns |-> <<1>>, parent_columns |-> <<1>>],
     [child_table |-> 1, parent_table |-> 3,
      child_columns |-> <<2>>, parent_columns |-> <<3>>],
     [child_table |-> 3, parent_table |-> 2,
      child_columns |-> <<2>>, parent_columns |-> <<1>>],
     [child_table |-> 3, parent_table |-> 1,
      child_columns |-> <<3, 1>>, parent_columns |-> <<2, 1>>] >>

\* Rows a table of the source may hold.
RowChoices(t) ==
  CASE t = 1 -> { <<Str("a1"), Str("Bale")>>, <<Str("a2"), Null>> }
    [] t = 2 -> { <<Str("m1"), Str("Batman")>>, <<Str("m2"), Null>> }
    [] OTHER -> { <<Str("a1"), Str("m1"), Str("Bruce")>>,
                  <<Str("a1"), Null, Str("Bruce")>>,
                  <<Null, Str("m1"), Null>> }

\* Indexes 1..n of the foreign keys of the catalog that are declared, kept in
\* constraint-name order (the ORDER BY of the metadata query).
RECURSIVE ListAllForeignKeys(_, _)
ListAllForeignKeys(present, i) ==
  IF i > Len(CatalogForeignKeys) THEN <<>>
  ELSE (IF i \in present THEN <<CatalogForeignKeys[i]>> ELSE <<>>)
       \o ListAllForeignKeys(present, i + 1)

\* One ExistenceConstraint per non-nullable column; the primary-key columns
\* are the non-nullable columns of this catalog.
RECURSIVE ListAllExistenceConstraints(_, _, _)
ListAllExistenceConstraints(tables, t, c) ==
  IF t > Len(tables) THEN <<>>
  ELSE IF c > Len(tables[t].columns)
       THEN ListAllExistenceConstraints(tables, t + 1, 1)
       ELSE (IF \E k \in DOMAIN tables[t].primary_key :
                   tables[t].primary_key[k] = c
             THEN << <<t, c>> >> ELSE <<>>)
            \o ListAllExistenceConstraints(tables, t, c + 1)

\* One UniqueConstraint per PRIMARY KEY constraint, in constraint-name order.
RECURSIVE ListAllUniqueConstraints(_, _)
ListAllUniqueConstraints(tables, t) ==
  IF t > Len(tables) THEN <<>>
  ELSE (IF tables[t].primary_key # <<>>
        THEN << <<t, tables[t].primary_key>> >> ELSE <<>>)
       \o ListAllUniqueConstraints(tables, t + 1)

\* The backfill loop with the referenced flag set on the child table.
RECURSIVE BackfillForeignKeys_MarksChild(_, _, _)
BackfillForeignKeys_MarksChild(tables, foreign_keys, i) ==
  IF i > Len(foreign_keys) THEN tables
  ELSE LET child == foreign_keys[i].child_table
           t1 == [tables EXCEPT ![child].foreign_keys = Append(@, i)]
           t2 == [t1 EXCEPT ![child].primary_key_referenced = TRUE]
       IN BackfillForeignKeys_MarksChild(t2, foreign_keys, i + 1)

\* The backfill loop without the referenced flag of the parent table.
RECURSIVE BackfillForeignKeys_SkipsParent(_, _, _)
BackfillForeignKeys_SkipsParent(tables, foreign_keys, i) ==
  IF i > Len(foreign_keys) THEN tables
  ELSE LET child == foreign_keys[i].child_table
           t1 == [tables EXCEPT ![child].foreign_keys = Append(@, i)]
       IN BackfillForeignKeys_SkipsParent(t1, foreign_keys, i + 1)

\* The loop that backfills each child table's foreign_keys and each parent
\* table's primary_key_referenced, from foreign key i on.
RECURSIVE BackfillForeignKeys(_, _, _)
BackfillForeignKeys(tables, foreign_keys, i) ==
  IF i > Len(foreign_keys) THEN tables
  ELSE LET child  == foreign_keys[i].child_table
           parent == foreign_keys[i].parent_table
           t1 == [tables EXCEPT ![child].foreign_keys = Append(@, i)]
           t2 == [t1 EXCEPT ![parent].primary_key_referenced = TRUE]
       IN BackfillForeignKeys(t2, foreign_keys, i + 1)

\* GetSchemaInfo for a source that declares the primary keys pks and the
\* foreign keys of the catalog whose index is in present.
GetSchemaInfo(pks, present) ==
  LET tables0 == [t \in DOMAIN CatalogTables |->
                    [schema |-> CatalogTables[t].schema,
                     name |-> CatalogTables[t].name,
                     columns |-> CatalogTables[t].columns,
                     primary_key |-> pks[t],
                     foreign_keys |-> <<>>,
                     primary_key_referenced |-> FALSE]]
      foreign_keys == ListAllForeignKeys(present, 1)
      tables == BackfillForeignKeys(tables0, foreign_keys, 1)
  IN [tables |-> tables,
      foreign_keys |-> foreign_keys,
      unique_constraints |-> ListAllUniqueConstraints(tables, 1),
      existence_constraints |-> ListAllExistenceConstraints(tables, 1, 1)]

\* ------------------------------------------------ helpers of main.cpp

\* utils::Contains on a vector.
Contains(seq, x) == \E k \in DOMAIN seq : seq[k] = x

\* ConstructForeignKeyMatcher that keys the entries by the child table's
\* column names.
ConstructForeignKeyMatcher_ChildNames(sch, foreign_key, row) ==
  [i \in DOMAIN foreign_key.child_columns |->
     LET child_pos == foreign_key.child_columns[i]
         child_table == sch.tables[foreign_key.child_table]
     IN <<child_table.columns[child_pos], row[child_pos]>>]

ConstructForeignKeyMatcher(sch, foreign_key, row) ==
  [i \in DOMAIN foreign_key.child_columns |->
     LET child_pos == foreign_key.child_columns[i]
         parent_pos == foreign_key.parent_columns[i]
         parent_table == sch.tables[foreign_key.parent_table]
     IN <<parent_table.columns[parent_pos], row[child_pos]>>]

\* IsForeignKeyMatcherWellDefined that never finds a null.
IsForeignKeyMatcherWellDefined_NoNullTest(properties) == TRUE

IsForeignKeyMatcherWellDefined(properties) ==
  \A k \in DOMAIN properties : properties[k][2].type # "Null"

\* IsTableRelationship without the test of primary_key_referenced.
IsTableRelationship_IgnoresReferenced(table) ==
  Len(table.foreign_keys) = 2

IsTableRelationship(table) ==
  Len(table.foreign_keys) = 2 /\ ~table.primary_key_referenced

GetTableName(table) ==
  IF table.schema = "public" THEN table.name
  ELSE table.schema \o "_" \o table.name

\* NodeProperties that leaves the null cells out.
RECURSIVE NodeProperties_DropsNulls(_, _)
NodeProperties_DropsNulls(table, row) ==
  IF row = <<>> THEN <<>>
  ELSE LET n == Len(row)
       IN NodeProperties_DropsNulls(table, SubSeq(row, 1, n - 1))
          \o (IF row[n].type = "Null" THEN <<>>
              ELSE << <<table.columns[n], row[n]>> >>)

\* The property map the node callback builds from a row.
NodeProperties(table, row) ==
  [i \in DOMAIN row |-> <<table.columns[i], row[i]>>]

\* RelationshipProperties that tests the first foreign key only.
RECURSIVE RelationshipProperties_FirstKeyOnly(_, _, _, _, _)
RelationshipProperties_FirstKeyOnly(table, foreign_key1, foreign_key2, row, i) ==
  IF i > Len(row) THEN <<>>
  ELSE (IF ~Contains(foreign_key1.child_columns, i)
        THEN << <<table.columns[i], row[i]>> >> ELSE <<>>)
       \o RelationshipProperties_FirstKeyOnly(table, foreign_key1,
                                              foreign_key2, row, i + 1)

\* The edge properties the relationship-table callback builds from a row.
RECURSIVE RelationshipProperties(_, _, _, _, _)
RelationshipProperties(table, foreign_key1, foreign_key2, row, i) ==
  IF i > Len(row) THEN <<>>
  ELSE (IF ~Contains(foreign_key1.child_columns, i)
           /\ ~Contains(foreign_key2.child_columns, i)
        THEN << <<table.columns[i], row[i]>> >> ELSE <<>>)
       \o RelationshipProperties(table, foreign_key1, foreign_key2, row, i + 1)

\* NodeIdentity that always takes every column.
NodeIdentity_AllColumns(table, row) ==
  [i \in DOMAIN row |-> <<table.columns[i], row[i]>>]

\* NodeIdentity that leaves the null cells out of the matcher.
NodeIdentity_DropsNulls(table, row) ==
  IF table.primary_key # <<>>
  THEN [k \in DOMAIN table.primary_key |->
          <<table.columns[table.primary_key[k]], row[table.primary_key[k]]>>]
  ELSE NodeProperties_DropsNulls(table, row)

\* The matcher id1 the node-table edge callback builds for its own node.
NodeIdentity(table, row) ==
  IF table.primary_key # <<>>
  THEN [k \in DOMAIN table.primary_key |->
          <<table.columns[table.primary_key[k]], row[table.primary_key[k]]>>]
  ELSE [i \in DOMAIN row |-> <<table.columns[i], row[i]>>]

\* ------------------------------- calls on the destination (primitives)

CreateNode(labels, properties) ==
  [call |-> "CreateNode", labels |-> labels, properties |-> properties]

CreateRelationships(label1, id1, label2, id2, edge_type, properties, use_merge) ==
  [call |-> "CreateRelationships", label1 |-> label1, id1 |-> id1,
   label2 |-> label2, id2 |-> id2, edge_type |-> edge_type,
   properties |-> properties, use_merge |-> use_merge]

CreateLabelIndex(label) == [call |-> "CreateLabelIndex", label |-> label]

CreateLabelPropertyIndex(label, property) ==
  [call |-> "CreateLabelPropertyIndex", label |-> label,
   property |-> property]

DropLabelIndex(label) == [call |-> "DropLabelIndex", label |-> label]

DropLabelPropertyIndex(label, property) ==
  [call |-> "DropLabelPropertyIndex", label |-> label, property |-> property]

CreateExistenceConstraint(label, property) ==
  [call |-> "CreateExistenceConstraint", label |-> label,
   property |-> property]

CreateUniqueConstraint(label, properties) ==
  [call |-> "CreateUniqueConstraint", label |-> label,
   properties |-> properties]

\* What a primitive without result comes back with: it returns, or one of
\* its CHECKs (Execute succeeded, no row received) ends the process.
VoidAnswers == {[ok |-> b, count |-> 0] : b \in BOOLEAN}

\* What CreateRelationships comes back with: the count of the single result
\* row, or one of its CHECKs ends the process.
CountAnswers ==
  {[ok |-> FALSE, count |-> 0]} \cup {[ok |-> TRUE, count |-> n] : n \in Counts}

\* ------------------------------------------------------ the passes

\* The calls the passes of MigrateSqlDatabase make for one table.

\* StagingIndex over the last primary-key column instead of the first.
StagingIndex_LastKeyColumn(table) ==
  IF table.primary_key # <<>>
  THEN CreateLabelPropertyIndex(
         GetTableName(table),
         table.columns[table.primary_key[Len(table.primary_key)]])
  ELSE CreateLabelIndex(GetTableName(table))

StagingIndex(table) ==
  IF table.primary_key # <<>>
  THEN CreateLabelPropertyIndex(GetTableName(table),
                                table.columns[table.primary_key[1]])
  ELSE CreateLabelIndex(GetTableName(table))

DropStagingIndex(table) ==
  IF table.primary_key # <<>>
  THEN DropLabelPropertyIndex(GetTableName(table),
                              table.columns[table.primary_key[1]])
  ELSE DropLabelIndex(GetTableName(table))

\* RelationshipTableEdge that merges when the table has no primary key.
RelationshipTableEdge_MergesWithoutKey(sch, table, row) ==
  LET foreign_key1 == sch.foreign_keys[table.foreign_keys[1]]
      foreign_key2 == sch.foreign_keys[table.foreign_keys[2]]
  IN CreateRelationships(
       GetTableName(sch.tables[foreign_key1.parent_table]),
       ConstructForeignKeyMatcher(sch, foreign_key1, row),
       GetTableName(sch.tables[foreign_key2.parent_table]),
       ConstructForeignKeyMatcher(sch, foreign_key2, row),
       GetTableName(table),
       RelationshipProperties(table, foreign_key1, foreign_key2, row, 1),
       table.primary_key = <<>>)

RelationshipTableEdge(sch, table, row) ==
  LET foreign_key1 == sch.foreign_keys[table.foreign_keys[1]]
      foreign_key2 == sch.foreign_keys[table.foreign_keys[2]]
  IN CreateRelationships(
       GetTableName(sch.tables[foreign_key1.parent_table]),
       ConstructForeignKeyMatcher(sch, foreign_key1, row),
       GetTableName(sch.tables[foreign_key2.parent_table]),
       ConstructForeignKeyMatcher(sch, foreign_key2, row),
       GetTableName(table),
       RelationshipProperties(table, foreign_key1, foreign_key2, row, 1),
       FALSE)

NodeTableEdge(sch, table, row, fk_pos) ==
  LET foreign_key == sch.foreign_keys[fk_pos]
      label1 == GetTableName(table)
      label2 == GetTableName(sch.tables[foreign_key.parent_table])
  IN CreateRelationships(
       label1, NodeIdentity(table, row),
       label2, ConstructForeignKeyMatcher(sch, foreign_key, row),
       label1 \o "_to_" \o label2,
       <<>>,
       table.primary_key = <<>>)

\* CountAccepted that asserts a count of 1 for every table.
CountAccepted_AlwaysAsserts(table, rels_created) == rels_created = 1

\* The node-table edge callback's test of the returned count: asserted to be
\* 1 only when the table has a primary key.
CountAccepted(table, rels_created) ==
  table.primary_key = <<>> \/ rels_created = 1

\* AfterConstraint that leaves out the loop over the unique constraints.
AfterConstraint_SkipsUnique(p, c) ==
  IF p = "existence" /\ c <= Len(schema.existence_constraints)
  THEN <<"existence", c>>
  ELSE <<"done", 1>>

\* The position after the loop over the constraints at index c of stage p:
\* a loop over an empty (or exhausted) vector falls through to the next.
AfterConstraint(p, c) ==
  IF p = "existence" /\ c <= Len(schema.existence_constraints)
  THEN <<"existence", c>>
  ELSE IF p = "existence" /\ Len(schema.unique_constraints) >= 1
  THEN <<"unique", 1>>
  ELSE IF p = "unique" /\ c <= Len(schema.unique_constraints)
  THEN <<"unique", c>>
  ELSE <<"done", 1>>

\* NextPass with the cleanup loop placed before the edge loop.
NextPass_CleanupBeforeEdges(p) ==
  CASE p = "nodes" -> "cleanup"
    [] p = "cleanup" -> "edges"
    [] OTHER -> AfterConstraint("existence", 1)[1]

\* The stage that follows the loop over the tables of stage p.
NextPass(p) ==
  CASE p = "nodes" -> "edges"
    [] p = "edges" -> "cleanup"
    [] OTHER -> AfterConstraint("existence", 1)[1]

\* Moves on from table ti of the current loop over schema.tables.
NextTable ==
  IF ti < Len(schema.tables)
  THEN /\ ti' = ti + 1
       /\ pc' = pc
  ELSE /\ ti' = 1
       /\ pc' = NextPass(pc)

\* Appends a call on the destination and what it came back with.
Emit(call, came_back) ==
  /\ log' = Append(log, call)
  /\ answer' = came_back

\* Hands a streamed row to the row callback; at is the number of calls made
\* on the destination before the callback runs.
Deliver(row) ==
  /\ fetched' = fetched + 1
  /\ delivered' = Append(delivered, [pass |-> pc, table |-> ti, row |-> row,
                                     at |-> Len(log)])

Init ==
  /\ \E pks \in [DOMAIN CatalogTables -> UNION {PrimaryKeyChoices(t) : t \in DOMAIN CatalogTables}],
        present \in SUBSET DOMAIN CatalogForeignKeys :
        /\ \A t \in DOMAIN CatalogTables : pks[t] \in PrimaryKeyChoices(t)
        /\ schema = GetSchemaInfo(pks, present)
  /\ pc = "nodes"
  /\ ti = 1
  /\ ci = 1
  /\ cur = NoRow
  /\ fi = 1
  /\ fetched = 0
  /\ log = <<>>
  /\ answer = [ok |-> TRUE, count |-> 0]
  /\ delivered = <<>>
  /\ classified = [t \in DOMAIN CatalogTables |-> "none"]
  /\ NoMemgraph
  /\ NoSqlClient

\* Node pass: a relationship table is skipped.
NodePassSkip ==
  /\ pc = "nodes"
  /\ IsTableRelationship(schema.tables[ti])
  /\ classified' = [classified EXCEPT ![ti] = "relationship"]
  /\ NextTable
  /\ UNCHANGED <<schema, graph_vars, sql_client_vars, ci, cur, fi, fetched, log, answer, delivered>>

\* Node pass: the row callback creates one node.
NodePassRow ==
  /\ pc = "nodes"
  /\ ~IsTableRelationship(schema.tables[ti])
  /\ fetched < MaxRows
  /\ \E row \in RowChoices(ti), came_back \in VoidAnswers :
       /\ Deliver(row)
       /\ Emit(CreateNode({GetTableName(schema.tables[ti])},
                          NodeProperties(schema.tables[ti], row)), came_back)
       /\ pc' = IF came_back.ok THEN pc ELSE "aborted"
  /\ UNCHANGED <<schema, graph_vars, sql_client_vars, ti, ci, cur, fi, classified>>

\* Node pass: the table is drained, its staging index is created.
NodePassCreateIndex ==
  /\ pc = "nodes"
  /\ ~IsTableRelationship(schema.tables[ti])
  /\ classified' = [classified EXCEPT ![ti] = "node"]
  /\ \E came_back \in VoidAnswers :
       /\ Emit(StagingIndex(schema.tables[ti]), came_back)
       /\ IF came_back.ok THEN NextTable
          ELSE pc' = "aborted" /\ ti' = ti
  /\ UNCHANGED <<schema, graph_vars, sql_client_vars, ci, cur, fi, fetched, delivered>>

\* Edge pass: a table without foreign keys is skipped.
EdgePassSkip ==
  /\ pc = "edges"
  /\ schema.tables[ti].foreign_keys = <<>>
  /\ NextTable
  /\ UNCHANGED <<schema, graph_vars, sql_client_vars, ci, cur, fi, fetched, log, answer, delivered,
                 classified>>

\* Edge pass, relationship table: the row callback creates one edge, or
\* skips the row when a matcher holds a null.
RelationshipRow ==
  /\ pc = "edges"
  /\ schema.tables[ti].foreign_keys # <<>>
  /\ IsTableRelationship(schema.tables[ti])
  /\ fetched < MaxRows
  /\ \E row \in RowChoices(ti) :
       LET table == schema.tables[ti]
           edge == RelationshipTableEdge(schema, table, row)
       IN /\ Deliver(row)
          /\ IF IsForeignKeyMatcherWellDefined(edge.id1)
                /\ IsForeignKeyMatcherWellDefined(edge.id2)
             THEN \E came_back \in CountAnswers :
                    /\ Emit(edge, came_back)
                    /\ pc' = IF came_back.ok /\ came_back.count = 1
                             THEN pc ELSE "aborted"
             ELSE UNCHANGED <<log, answer, pc>>
  /\ UNCHANGED <<schema, graph_vars, sql_client_vars, ti, ci, cur, fi, classified>>

\* Edge pass, node table: the row callback starts on a row.
NodeEdgeRow ==
  /\ pc = "edges"
  /\ schema.tables[ti].foreign_keys # <<>>
  /\ ~IsTableRelationship(schema.tables[ti])
  /\ cur = NoRow
  /\ fetched < MaxRows
  /\ \E row \in RowChoices(ti) :
       /\ Deliver(row)
       /\ cur' = row
  /\ fi' = 1
  /\ UNCHANGED <<schema, graph_vars, sql_client_vars, pc, ti, ci, log, answer, classified>>

\* Edge pass, node table: one iteration of the callback's loop over the
\* table's foreign keys.
NodeEdgeForeignKey ==
  /\ pc = "edges"
  /\ cur # NoRow
  /\ LET table == schema.tables[ti]
         edge == NodeTableEdge(schema, table, cur, table.foreign_keys[fi])
         last == fi >= Len(table.foreign_keys)
     IN IF IsForeignKeyMatcherWellDefined(edge.id2)
        THEN \E came_back \in CountAnswers :
               /\ Emit(edge, came_back)
               /\ IF came_back.ok /\ CountAccepted(table, came_back.count)
                  THEN /\ pc' = pc
                       /\ cur' = IF last THEN NoRow ELSE cur
                       /\ fi' = IF last THEN 1 ELSE fi + 1
                  ELSE /\ pc' = "aborted"
                       /\ UNCHANGED <<cur, fi>>
        ELSE /\ cur' = IF last THEN NoRow ELSE cur
             /\ fi' = IF last THEN 1 ELSE fi + 1
             /\ UNCHANGED <<log, answer, pc>>
  /\ UNCHANGED <<schema, graph_vars, sql_client_vars, ti, ci, fetched, delivered, classified>>

\* Edge pass: the table with foreign keys is drained.
EdgePassTableEnd ==
  /\ pc = "edges"
  /\ schema.tables[ti].foreign_keys # <<>>
  /\ cur = NoRow
  /\ NextTable
  /\ UNCHANGED <<schema, graph_vars, sql_client_vars, ci, cur, fi, fetched, log, answer, delivered,
                 classified>>

\* ReadTable fails to execute or to fetch: the process ends.
ReadTableFails ==
  /\ \/ pc = "nodes" /\ ~IsTableRelationship(schema.tables[ti])
     \/ pc = "edges" /\ schema.tables[ti].foreign_keys # <<>> /\ cur = NoRow
  /\ pc' = "source_failed"
  /\ UNCHANGED <<schema, graph_vars, sql_client_vars, ti, ci, cur, fi, fetched, log, answer, delivered,
                 classified>>

\* Cleanup: the staging index of table ti is dropped.
CleanupTable ==
  /\ pc = "cleanup"
  /\ \E came_back \in VoidAnswers :
       /\ Emit(DropStagingIndex(schema.tables[ti]), came_back)
       /\ IF came_back.ok
          THEN /\ NextTable
               /\ ci' = 1
          ELSE /\ pc' = "aborted"
               /\ UNCHANGED <<ti, ci>>
  /\ UNCHANGED <<schema, graph_vars, sql_client_vars, cur, fi, fetched, delivered, classified>>

\* Constraint pass: an existence constraint of a relationship table is
\* skipped.
SkipExistenceConstraint ==
  /\ pc = "existence"
  /\ IsTableRelationship(schema.tables[schema.existence_constraints[ci][1]])
  /\ pc' = AfterConstraint(pc, ci + 1)[1]
  /\ ci' = AfterConstraint(pc, ci + 1)[2]
  /\ UNCHANGED <<schema, graph_vars, sql_client_vars, ti, cur, fi, fetched, log, answer, delivered,
                 classified>>

\* Constraint pass: an existence constraint of a node table is created.
MigrateExistenceConstraint ==
  /\ pc = "existence"
  /\ LET constraint == schema.existence_constraints[ci]
         table == schema.tables[constraint[1]]
     IN /\ ~IsTableRelationship(table)
        /\ \E came_back \in VoidAnswers :
             /\ Emit(CreateExistenceConstraint(GetTableName(table),
                                               table.columns[constraint[2]]),
                     came_back)
             /\ pc' = IF came_back.ok THEN AfterConstraint(pc, ci + 1)[1]
                      ELSE "aborted"
             /\ ci' = IF came_back.ok THEN AfterConstraint(pc, ci + 1)[2] ELSE ci
  /\ UNCHANGED <<schema, graph_vars, sql_client_vars, ti, cur, fi, fetched, delivered, classified>>

\* Constraint pass: a unique constraint of a relationship table is skipped.
SkipUniqueConstraint ==
  /\ pc = "unique"
  /\ IsTableRelationship(schema.tables[schema.unique_constraints[ci][1]])
  /\ pc' = AfterConstraint(pc, ci + 1)[1]
  /\ ci' = AfterConstraint(pc, ci + 1)[2]
  /\ UNCHANGED <<schema, graph_vars, sql_client_vars, ti, cur, fi, fetched, log, answer, delivered,
                 classified>>

\* Constraint pass: a unique constraint of a node table is created.
MigrateUniqueConstraint ==
  /\ pc = "unique"
  /\ LET constraint == schema.unique_constraints[ci]
         table == schema.tables[constraint[1]]
     IN /\ ~IsTableRelationship(table)
        /\ \E came_back \in VoidAnswers :
             /\ Emit(CreateUniqueConstraint(
                       GetTableName(table),
                       {table.columns[constraint[2][k]] :
                          k \in DOMAIN constraint[2]}),
                     came_back)
             /\ pc' = IF came_back.ok THEN AfterConstraint(pc, ci + 1)[1]
                      ELSE "aborted"
             /\ ci' = IF came_back.ok THEN AfterConstraint(pc, ci + 1)[2] ELSE ci
  /\ UNCHANGED <<schema, graph_vars, sql_client_vars, ti, cur, fi, fetched, delivered, classified>>

Next ==
  \/ NodePassSkip
  \/ NodePassRow
  \/ NodePassCreateIndex
  \/ EdgePassSkip
  \/ RelationshipRow
  \/ NodeEdgeRow
  \/ NodeEdgeForeignKey
  \/ EdgePassTableEnd
  \/ ReadTableFails
  \/ CleanupTable
  \/ SkipExistenceConstraint
  \/ MigrateExistenceConstraint
  \/ SkipUniqueConstraint
  \/ MigrateUniqueConstraint

Spec == Init /\ [][Next]_vars

\* ------------------------------------------------------------ the claims

Table(t) == schema.tables[t]

Tables == DOMAIN schema.tables

\* The canonical name of table t: the bare name in the default schema.
CanonicalName(t) ==
  IF Table(t).schema = "public" THEN Table(t).name
  ELSE Table(t).schema \o "_" \o Table(t).name

\* Exactly two outgoing foreign keys and no foreign key referencing it.
TwoKeysUnreferenced(t) ==
  /\ Len(Table(t).foreign_keys) = 2
  /\ ~Table(t).primary_key_referenced

IsCreateNode(e) == e.call = "CreateNode"

IsNodePassRow(d) == d.pass = "nodes"

IsEdgePassRow(d) == d.pass = "edges"

NodeCalls == SelectSeq(log, IsCreateNode)

NodePassRows == SelectSeq(delivered, IsNodePassRow)

C2_NodeCoverage ==
  /\ Len(NodeCalls) = Len(NodePassRows)
  /\ \A k \in DOMAIN NodePassRows :
       LET d == NodePassRows[k]
       IN /\ ~TwoKeysUnreferenced(d.table)
          /\ NodeCalls[k].labels = {CanonicalName(d.table)}
          /\ NodeCalls[k].properties =
               [i \in DOMAIN Table(d.table).columns |->
                  <<Table(d.table).columns[i], d.row[i]>>]
  /\ \A k \in DOMAIN NodeCalls, t \in Tables :
       TwoKeysUnreferenced(t) => CanonicalName(t) \notin NodeCalls[k].labels

\* A completed run that created two nodes, one from a row with a null cell,
\* beside a relationship table, which the node pass skipped.
C2_Witness ==
  /\ pc = "done"
  /\ Len(NodeCalls) = 2
  /\ \E k \in DOMAIN NodePassRows, i \in 1..2 : NodePassRows[k].row[i] = Null
  /\ \E t \in Tables : classified[t] = "relationship"

\* ---- what the edge pass is expected to emit for the rows it was handed

ForeignKey(i) == schema.foreign_keys[i]

\* A foreign key is well-defined on a row: no child column is null.
WellDefinedOn(fk, row) ==
  \A i \in DOMAIN fk.child_columns : row[fk.child_columns[i]] # Null

\* FK-to-property projection: pair i maps the parent column's name to the
\* row's value of the child column.
Projection(fk, row) ==
  [i \in DOMAIN fk.child_columns |->
     <<Table(fk.parent_table).columns[fk.parent_columns[i]],
       row[fk.child_columns[i]]>>]

\* The edges due for one delivered row: one for a relationship-table row
\* whose two keys are well-defined, one per well-defined key of a node table.
ExpectedOfRow(d) ==
  LET keys == Table(d.table).foreign_keys
      Defined(p) == WellDefinedOn(ForeignKey(p), d.row)
      due == SelectSeq(keys, Defined)
  IN IF TwoKeysUnreferenced(d.table)
     THEN IF Defined(keys[1]) /\ Defined(keys[2])
          THEN << [table |-> d.table, row |-> d.row, rel |-> TRUE,
                   fk |-> keys[1], fk2 |-> keys[2]] >>
          ELSE <<>>
     ELSE [j \in DOMAIN due |->
             [table |-> d.table, row |-> d.row, rel |-> FALSE,
              fk |-> due[j], fk2 |-> due[j]]]

RECURSIVE ExpectedFrom(_)
ExpectedFrom(k) ==
  IF k > Len(delivered) THEN <<>>
  ELSE (IF delivered[k].pass = "edges" THEN ExpectedOfRow(delivered[k])
        ELSE <<>>) \o ExpectedFrom(k + 1)

ExpectedEdges == ExpectedFrom(1)

IsCreateRelationships(e) == e.call = "CreateRelationships"

EdgeCalls == SelectSeq(log, IsCreateRelationships)

\* Position in log of the j-th create_relationship.
EdgeLogIndex(j) ==
  CHOOSE i \in DOMAIN log :
    /\ IsCreateRelationships(log[i])
    /\ Cardinality({m \in 1..i : IsCreateRelationships(log[m])}) = j

\* C3: a relationship-table row whose two foreign keys have no null child
\* column emits exactly one create_relationship with use_merge = false, and
\* the run aborts unless the count returned is 1; a row with a null child
\* column emits nothing and the run goes on without error.
C3_RelationshipRows ==
  \A k \in DOMAIN delivered :
    LET d == delivered[k]
        keys == Table(d.table).foreign_keys
        last == k = Len(delivered)
    IN (d.pass = "edges" /\ TwoKeysUnreferenced(d.table)) =>
         IF WellDefinedOn(ForeignKey(keys[1]), d.row)
            /\ WellDefinedOn(ForeignKey(keys[2]), d.row)
         THEN /\ Len(log) > d.at
              /\ IsCreateRelationships(log[d.at + 1])
              /\ log[d.at + 1].edge_type = CanonicalName(d.table)
              /\ log[d.at + 1].use_merge = FALSE
              /\ ~last => delivered[k + 1].at = d.at + 1
              /\ Len(log) = d.at + 1
                   => (pc = "aborted" <=> ~(answer.ok /\ answer.count = 1))
         ELSE /\ ~last => delivered[k + 1].at = d.at
              /\ Len(log) = d.at => pc # "aborted"
              /\ (last /\ Len(log) > d.at)
                   => ~IsCreateRelationships(log[d.at + 1])

\* A completed run over a relationship table that skipped a row with a null
\* key column and went on to create the edge of the next row.
C3_Witness ==
  /\ pc = "done"
  /\ Len(delivered) = 2
  /\ \A k \in 1..2 : TwoKeysUnreferenced(delivered[k].table)
  /\ ~WellDefinedOn(ForeignKey(Table(delivered[1].table).foreign_keys[2]),
                    delivered[1].row)
  /\ Len(EdgeCalls) = 1

\* C4: an edge emitted for a row of relationship table T has edge type
\* canonical_name(T), start label the canonical name of the parent of T's
\* first foreign key, end label that of the second, and as properties
\* exactly the columns in neither key's child_columns, with the row's values.
C4_RelationshipEdgeShape ==
  /\ Len(EdgeCalls) <= Len(ExpectedEdges)
  /\ \A j \in DOMAIN EdgeCalls :
       LET x == ExpectedEdges[j]
           fk1 == ForeignKey(x.fk)
           fk2 == ForeignKey(x.fk2)
           Free(i) == /\ \A n \in DOMAIN fk1.child_columns :
                           fk1.child_columns[n] # i
                      /\ \A n \in DOMAIN fk2.child_columns :
                           fk2.child_columns[n] # i
           free == SelectSeq([i \in DOMAIN x.row |-> i], Free)
       IN x.rel =>
            /\ EdgeCalls[j].edge_type = CanonicalName(x.table)
            /\ EdgeCalls[j].label1 = CanonicalName(fk1.parent_table)
            /\ EdgeCalls[j].label2 = CanonicalName(fk2.parent_table)
            /\ EdgeCalls[j].properties =
                 [n \in DOMAIN free |->
                    <<Table(x.table).columns[free[n]], x.row[free[n]]>>]

\* A completed run that created an edge with an edge property between two
\* different parent tables.
C4_Witness ==
  /\ pc = "done"
  /\ \E j \in DOMAIN EdgeCalls :
       /\ ExpectedEdges[j].rel
       /\ EdgeCalls[j].properties # <<>>
       /\ EdgeCalls[j].label1 # EdgeCalls[j].label2

\* C5: the endpoint matcher built from a foreign key has one entry per
\* column pair i, keyed by the parent table's column parent_columns[i] and
\* holding the row's value of child_columns[i], in pair order.
C5_ForeignKeyProjection ==
  /\ Len(EdgeCalls) <= Len(ExpectedEdges)
  /\ \A j \in DOMAIN EdgeCalls :
       LET x == ExpectedEdges[j]
       IN /\ x.rel => EdgeCalls[j].id1 = Projection(ForeignKey(x.fk), x.row)
          /\ EdgeCalls[j].id2 = Projection(ForeignKey(x.fk2), x.row)
          /\ EdgeCalls[j].label2 = CanonicalName(ForeignKey(x.fk2).parent_table)

\* A completed run that matched a parent through a two-column foreign key
\* whose child and parent positions differ.
C5_Witness ==
  /\ pc = "done"
  /\ \E j \in DOMAIN EdgeCalls :
       /\ Len(EdgeCalls[j].id2) = 2
       /\ ForeignKey(ExpectedEdges[j].fk2).child_columns
            # ForeignKey(ExpectedEdges[j].fk2).parent_columns

\* C6: for a row of a node table and each of its foreign keys in recorded
\* order, a key without null child column emits exactly one
\* create_relationship from (canonical_name(T), id1) to
\* (canonical_name(parent), projection), typed T_to_parent, without edge
\* properties, id1 being the primary-key columns or, without primary key,
\* all columns; a key with a null child column emits nothing.
C6_NodeTableEdges ==
  /\ Len(EdgeCalls) <= Len(ExpectedEdges)
  /\ (pc \notin {"aborted", "source_failed"} /\ cur = NoRow)
       => Len(EdgeCalls) = Len(ExpectedEdges)
  /\ \A j \in DOMAIN EdgeCalls :
       LET x == ExpectedEdges[j]
           T == Table(x.table)
           parent == ForeignKey(x.fk).parent_table
       IN ~x.rel =>
            EdgeCalls[j] =
              [call |-> "CreateRelationships",
               label1 |-> CanonicalName(x.table),
               id1 |-> IF T.primary_key # <<>>
                       THEN [n \in DOMAIN T.primary_key |->
                               <<T.columns[T.primary_key[n]],
                                 x.row[T.primary_key[n]]>>]
                       ELSE [i \in DOMAIN T.columns |->
                               <<T.columns[i], x.row[i]>>],
               label2 |-> CanonicalName(parent),
               id2 |-> Projection(ForeignKey(x.fk), x.row),
               edge_type |-> CanonicalName(x.table) \o "_to_"
                             \o CanonicalName(parent),
               properties |-> <<>>,
               use_merge |-> EdgeCalls[j].use_merge]

\* A completed run over a node table with a primary key and three foreign
\* keys, on a row with a null in the second key: two edges, first and third.
C6_Witness ==
  /\ pc = "done"
  /\ Len(EdgeCalls) = 2
  /\ \E k \in DOMAIN delivered :
       /\ delivered[k].pass = "edges"
       /\ Len(Table(delivered[k].table).foreign_keys) = 3
       /\ Table(delivered[k].table).primary_key # <<>>
       /\ delivered[k].row[2] = Null

\* C7: in the edge pass over a node table, a table with a primary key emits
\* each relationship with CREATE and the run aborts unless the count
\* returned is exactly 1; a table without primary key emits it with MERGE
\* and every returned count, 0 and more than 1 included, is accepted.
C7_NodeTableCreateOrMerge ==
  /\ Len(EdgeCalls) <= Len(ExpectedEdges)
  /\ \A j \in DOMAIN EdgeCalls :
       LET x == ExpectedEdges[j]
           has_key == Table(x.table).primary_key # <<>>
       IN ~x.rel =>
            /\ EdgeCalls[j].use_merge = ~has_key
            /\ EdgeLogIndex(j) = Len(log)
                 => (pc = "aborted"
                       <=> IF has_key
                           THEN ~(answer.ok /\ answer.count = 1)
                           ELSE ~answer.ok)

\* The edge pass is over: a node table with a primary key had its edge
\* created, and the last edge, of a node table without primary key, was
\* merged and came back with a count of 0.
C7_Witness ==
  /\ pc = "cleanup"
  /\ Len(EdgeCalls) = 2
  /\ \A j \in 1..2 : ~ExpectedEdges[j].rel
  /\ ~EdgeCalls[1].use_merge
  /\ EdgeCalls[2].use_merge
  /\ EdgeLogIndex(2) = Len(log)
  /\ answer = [ok |-> TRUE, count |-> 0]

\* C8 as stated: every relationship the edge pass emits for a table without
\* primary key, relationship table or node table, has use_merge = true.
C8_MergeForEveryKeylessTable ==
  /\ Len(EdgeCalls) <= Len(ExpectedEdges)
  /\ \A j \in DOMAIN EdgeCalls :
       Table(ExpectedEdges[j].table).primary_key = <<>>
         => EdgeCalls[j].use_merge

\* C8: the edge pass emits a relationship with use_merge = true exactly for
\* a node table without primary key; for a relationship table it emits
\* use_merge = false, with or without a primary key, so that handing it the
\* same row twice sends the same CREATE twice.
C8_MergeOnlyForKeylessNodeTables ==
  /\ Len(EdgeCalls) <= Len(ExpectedEdges)
  /\ \A j \in DOMAIN EdgeCalls :
       LET x == ExpectedEdges[j]
       IN EdgeCalls[j].use_merge
            = (~x.rel /\ Table(x.table).primary_key = <<>>)
  /\ \A j, k \in DOMAIN EdgeCalls :
       LET x == ExpectedEdges[j]
           y == ExpectedEdges[k]
       IN (x.rel /\ y.rel /\ x.table = y.table /\ x.row = y.row)
            => /\ EdgeCalls[j] = EdgeCalls[k]
               /\ ~EdgeCalls[j].use_merge

\* A completed run over a relationship table without primary key that was
\* handed the same row twice and sent two CREATE statements.
C8_Witness ==
  /\ pc = "done"
  /\ Len(EdgeCalls) = 2
  /\ \A j \in 1..2 :
       /\ ExpectedEdges[j].rel
       /\ Table(ExpectedEdges[j].table).primary_key = <<>>
       /\ ~EdgeCalls[j].use_merge
  /\ ExpectedEdges[1].row = ExpectedEdges[2].row

\* ---- the calls on the destination, by kind

IsIndexCreation(e) ==
  e.call \in {"CreateLabelIndex", "CreateLabelPropertyIndex"}

IsIndexDrop(e) == e.call \in {"DropLabelIndex", "DropLabelPropertyIndex"}

IsConstraintCreation(e) ==
  e.call \in {"CreateExistenceConstraint", "CreateUniqueConstraint"}

\* Positions in log of the staging-index creations on table t's label.
IndexCreations(t) ==
  {i \in DOMAIN log : IsIndexCreation(log[i])
                      /\ log[i].label = CanonicalName(t)}

\* Positions in log of the create_node calls for rows of table t.
NodeCreations(t) ==
  {i \in DOMAIN log : IsCreateNode(log[i])
                      /\ log[i].labels = {CanonicalName(t)}}

\* The node pass has moved past table t.
NodePassLeft(t) ==
  \/ pc \in {"edges", "cleanup", "existence", "unique", "done"}
  \/ pc = "nodes" /\ ti > t

\* C9: every node table gets exactly one staging index, created after the
\* last create_node of the table and before the first create_node of a later
\* table: a label-property index on (canonical_name(T), first primary-key
\* column) with a primary key, a label index on canonical_name(T) without;
\* a relationship table gets none.
C9_StagingIndex ==
  \A t \in Tables :
    /\ TwoKeysUnreferenced(t) => IndexCreations(t) = {}
    /\ Cardinality(IndexCreations(t)) <= 1
    /\ (~TwoKeysUnreferenced(t) /\ NodePassLeft(t))
         => Cardinality(IndexCreations(t)) = 1
    /\ \A i \in IndexCreations(t) :
         /\ log[i] = IF Table(t).primary_key # <<>>
                     THEN [call |-> "CreateLabelPropertyIndex",
                           label |-> CanonicalName(t),
                           property |->
                             Table(t).columns[Table(t).primary_key[1]]]
                     ELSE [call |-> "CreateLabelIndex",
                           label |-> CanonicalName(t)]
         /\ \A n \in NodeCreations(t) : n < i
         /\ \A u \in Tables : u > t => \A n \in NodeCreations(u) : n > i
    /\ (IndexCreations(t) = {} /\ NodeCreations(t) # {})
         => \A u \in Tables : u > t => NodeCreations(u) = {}

\* A completed run that created a node in each of two node tables, the
\* second with a two-column primary key, and indexed both.
C9_Witness ==
  /\ pc = "done"
  /\ \E t, u \in Tables :
       /\ t < u
       /\ Len(Table(u).primary_key) = 2
       /\ NodeCreations(t) # {} /\ NodeCreations(u) # {}
       /\ IndexCreations(t) # {} /\ IndexCreations(u) # {}

\* The phase a call on the destination belongs to.
Phase(e) ==
  CASE IsCreateNode(e) \/ IsIndexCreation(e) -> 1
    [] IsCreateRelationships(e) -> 2
    [] IsIndexDrop(e) -> 3
    [] IsConstraintCreation(e) -> 4

\* The staging index created at position i of log is dropped at position j.
DropsIndex(j, i) ==
  /\ IsIndexDrop(log[j])
  /\ log[j].label = log[i].label
  /\ (log[i].call = "CreateLabelPropertyIndex")
       = (log[j].call = "DropLabelPropertyIndex")
  /\ log[i].call = "CreateLabelPropertyIndex"
       => log[j].property = log[i].property

\* C10: the calls on the destination come in four phases that never
\* interleave: create_node and staging-index creation, create_relationship,
\* staging-index drop, constraint creation; every node table is drained and
\* indexed before the first edge, and every staging index is dropped before
\* the first constraint.
C10_Phases ==
  /\ \A i, j \in DOMAIN log : i < j => Phase(log[i]) <= Phase(log[j])
  /\ \A e \in DOMAIN log :
       IsCreateRelationships(log[e]) =>
         \A t \in Tables :
           /\ classified[t] # "none"
           /\ ~TwoKeysUnreferenced(t)
                => \E i \in IndexCreations(t) : i < e
           /\ \A n \in NodeCreations(t) : n < e
  /\ \A c \in DOMAIN log :
       IsConstraintCreation(log[c]) =>
         \A i \in DOMAIN log :
           IsIndexCreation(log[i])
             => \E j \in DOMAIN log : i < j /\ j < c /\ DropsIndex(j, i)

\* A completed run that went through all four phases.
C10_Witness ==
  /\ pc = "done"
  /\ \A p \in 1..4 : \E i \in DOMAIN log : Phase(log[i]) = p

\* C11: the cleanup pass drops exactly the staging indexes the node pass
\* created: every drop is of an index created before it, no index is dropped
\* twice, and once cleanup is over every created index has been dropped;
\* no drop is emitted for a relationship table.
C11_DropsExactlyCreated ==
  /\ \A j \in DOMAIN log :
       IsIndexDrop(log[j])
         => \E i \in 1..(j - 1) : IsIndexCreation(log[i]) /\ DropsIndex(j, i)
  /\ \A i \in DOMAIN log :
       IsIndexCreation(log[i])
         => /\ Cardinality({j \in DOMAIN log : DropsIndex(j, i)}) <= 1
            /\ pc \in {"existence", "unique", "done"}
                 => \E j \in DOMAIN log : i < j /\ DropsIndex(j, i)
  /\ \A t \in Tables, j \in DOMAIN log :
       (TwoKeysUnreferenced(t) /\ IsIndexDrop(log[j]))
         => log[j].label # CanonicalName(t)

\* ---- what the constraint loops are expected to emit

ExistenceStatement(c) ==
  [call |-> "CreateExistenceConstraint",
   label |-> CanonicalName(c[1]),
   property |-> Table(c[1]).columns[c[2]]]

UniqueStatement(c) ==
  [call |-> "CreateUniqueConstraint",
   label |-> CanonicalName(c[1]),
   properties |-> {Table(c[1]).columns[c[2][k]] : k \in DOMAIN c[2]}]

OnNodeTable(c) == ~TwoKeysUnreferenced(c[1])

ExpectedConstraints ==
  LET existence == SelectSeq(schema.existence_constraints, OnNodeTable)
      unique == SelectSeq(schema.unique_constraints, OnNodeTable)
  IN [k \in DOMAIN existence |-> ExistenceStatement(existence[k])]
     \o [k \in DOMAIN unique |-> UniqueStatement(unique[k])]

ConstraintCalls == SelectSeq(log, IsConstraintCreation)

\* C12: every existence and every unique constraint of SchemaInfo on a node
\* table yields exactly one constraint call, on canonical_name(table) and
\* the named column(s); a constraint on a relationship table yields none.
C12_ConstraintPreservation ==
  /\ Len(ConstraintCalls) <= Len(ExpectedConstraints)
  /\ \A k \in DOMAIN ConstraintCalls :
       ConstraintCalls[k] = ExpectedConstraints[k]
  /\ pc = "done" => Len(ConstraintCalls) = Len(ExpectedConstraints)
  /\ \A k \in DOMAIN ConstraintCalls, t \in Tables :
       TwoKeysUnreferenced(t) => ConstraintCalls[k].label # CanonicalName(t)

\* A completed run that created the existence and unique constraints of two
\* node tables and none of those of a relationship table with a primary key.
C12_Witness ==
  /\ pc = "done"
  /\ Len(ConstraintCalls) = 4
  /\ \E k \in DOMAIN ConstraintCalls :
       ConstraintCalls[k].call = "CreateUniqueConstraint"
  /\ \E t \in Tables :
       /\ TwoKeysUnreferenced(t)
       /\ Table(t).primary_key # <<>>

\* ===================================================================
\* The statements of memgraph_destination.cpp.  A statement is a sequence
\* of pieces of text: the string literals the code streams, one piece each,
\* and the characters of escaped names, one piece per character.  A name is
\* a sequence of characters.

\* Statements built in one run of the statement builders.
MaxStatements == 2

\* The backtick character (0x60), which a string of this module cannot hold.
Backtick == "[backtick]"

\* The characters names are made of, in byte order: backtick, 'a', 'b'.
Alphabet == <<Backtick, "a", "b">>

CharRank(c) == CHOOSE i \in DOMAIN Alphabet : Alphabet[i] = c

\* operator< of std::string: lexicographic on bytes, a proper prefix first.
RECURSIVE StringLess(_, _)
StringLess(a, b) ==
  IF b = <<>> THEN FALSE
  ELSE IF a = <<>> THEN TRUE
  ELSE IF Head(a) = Head(b) THEN StringLess(Tail(a), Tail(b))
  ELSE CharRank(Head(a)) < CharRank(Head(b))

\* Iteration over a std::set<std::string>, greatest element first.
RECURSIVE SetInOrder_Descending(_)
SetInOrder_Descending(set) ==
  IF set = {} THEN <<>>
  ELSE LET last == CHOOSE x \in set : \A y \in set \ {x} : StringLess(y, x)
       IN <<last>> \o SetInOrder_Descending(set \ {last})

\* Iteration over a std::set<std::string>: ascending by operator<.
RECURSIVE SetInOrder(_)
SetInOrder(set) ==
  IF set = {} THEN <<>>
  ELSE LET first == CHOOSE x \in set : \A y \in set \ {x} : StringLess(x, y)
       IN <<first>> \o SetInOrder(set \ {first})

kParamPrefix == "param"

\* A fresh ParamsBuilder.
ParamsBuilder == [counter_ |-> 0, params_ |-> <<>>]

\* ParamsBuilder::Create that names the first parameter param1.
Create_CountsFromOne(params, value) ==
  LET key == kParamPrefix \o ToString(params.counter_ + 1)
  IN [params |-> [counter_ |-> params.counter_ + 1,
                  params_ |-> [k \in DOMAIN params.params_ \cup {key} |->
                                IF k = key THEN value
                                ELSE params.params_[k]]],
      text |-> "$" \o key]

\* ParamsBuilder::Create: the builder after the call and the text returned.
\* The counter never repeats, so the CHECK on emplace holds.
Create(params, value) ==
  LET key == kParamPrefix \o ToString(params.counter_)
  IN [params |-> [counter_ |-> params.counter_ + 1,
                  params_ |-> [k \in DOMAIN params.params_ \cup {key} |->
                                IF k = key THEN value
                                ELSE params.params_[k]]],
      text |-> "$" \o key]

\* EscapeName without the doubling of embedded backticks.
EscapeName_NoDoubling(src) == <<Backtick>> \o src \o <<Backtick>>

EscapeName(src) ==
  LET RECURSIVE Escaped(_)
      Escaped(rest) ==
        IF rest = <<>> THEN <<>>
        ELSE (IF Head(rest) = Backtick THEN <<Backtick, Backtick>>
              ELSE <<Head(rest)>>)
             \o Escaped(Tail(rest))
  IN <<Backtick>> \o Escaped(src) \o <<Backtick>>

\* WriteProperties: {key: $param, ...} over the entries of an mg::Map.
WriteProperties(params, properties) ==
  LET RECURSIVE Items(_, _)
      Items(builder, i) ==
        IF i > Len(properties) THEN [params |-> builder, text |-> <<>>]
        ELSE LET created == Create(builder, properties[i][2])
                 rest == Items(created.params, i + 1)
             IN [params |-> rest.params,
                 text |-> (IF i > 1 THEN <<", ">> ELSE <<>>)
                          \o EscapeName(properties[i][1])
                          \o <<": ", created.text>> \o rest.text]
      items == Items(params, 1)
  IN [params |-> items.params, text |-> <<"{">> \o items.text \o <<"}">>]

\* WriteIdMatcher: node.key = $param AND ... over the entries of an mg::Map.
WriteIdMatcher(params, node, id_properties) ==
  LET RECURSIVE Items(_, _)
      Items(builder, i) ==
        IF i > Len(id_properties) THEN [params |-> builder, text |-> <<>>]
        ELSE LET created == Create(builder, id_properties[i][2])
                 rest == Items(created.params, i + 1)
             IN [params |-> rest.params,
                 text |-> (IF i > 1 THEN <<" AND ">> ELSE <<>>)
                          \o <<node, ".">>
                          \o EscapeName(id_properties[i][1])
                          \o <<" = ", created.text>> \o rest.text]
  IN Items(params, 1)

\* ParamsBuilder::GetParams.
GetParams(params) == params.params_

\* The statement and parameters each primitive hands to Execute.

CreateNodeQuery(labels, properties) ==
  LET RECURSIVE Labels(_)
      Labels(rest) ==
        IF rest = <<>> THEN <<>>
        ELSE <<":">> \o EscapeName(Head(rest)) \o Labels(Tail(rest))
      written == WriteProperties(ParamsBuilder, properties)
  IN [statement |-> <<"CREATE (u">> \o Labels(SetInOrder(labels)) \o <<" ">>
                    \o written.text \o <<");">>,
      params |-> GetParams(written.params)]

CreateRelationshipsQuery(label1, id1, label2, id2, edge_type, properties, use_merge) ==
  LET matcher1 == WriteIdMatcher(ParamsBuilder, "u", id1)
      matcher2 == WriteIdMatcher(matcher1.params, "v", id2)
      written == WriteProperties(matcher2.params, properties)
  IN [statement |->
        <<"MATCH ", "(u:">> \o EscapeName(label1) \o <<"), ", "(v:">>
        \o EscapeName(label2) \o <<")", " WHERE ">> \o matcher1.text
        \o <<" AND ">> \o matcher2.text
        \o <<IF use_merge THEN " MERGE " ELSE " CREATE ", "(u)-[:">>
        \o EscapeName(edge_type)
        \o (IF properties # <<>> THEN <<" ">> \o written.text ELSE <<>>)
        \o <<"]->(v) RETURN COUNT(u);">>,
      params |-> IF properties # <<>> THEN GetParams(written.params)
                 ELSE GetParams(matcher2.params)]

CreateLabelIndexQuery(label) ==
  [statement |-> <<"CREATE INDEX ON :">> \o EscapeName(label) \o <<";">>,
   params |-> <<>>]

CreateLabelPropertyIndexQuery(label, property) ==
  [statement |-> <<"CREATE INDEX ON :">> \o EscapeName(label) \o <<"(">>
                 \o EscapeName(property) \o <<");">>,
   params |-> <<>>]

CreateExistenceConstraintQuery(label, property) ==
  [statement |-> <<"CREATE CONSTRAINT ON (u:">> \o EscapeName(label)
                 \o <<") ASSERT EXISTS (u.">> \o EscapeName(property)
                 \o <<");">>,
   params |-> <<>>]

CreateUniqueConstraintQuery(label, properties) ==
  LET RECURSIVE Keys(_, _)
      Keys(rest, i) ==
        IF i > Len(rest) THEN <<>>
        ELSE (IF i > 1 THEN <<", ">> ELSE <<>>)
             \o <<"u.">> \o EscapeName(rest[i]) \o Keys(rest, i + 1)
  IN [statement |-> <<"CREATE CONSTRAINT ON (u:">> \o EscapeName(label)
                    \o <<") ASSERT ">> \o Keys(SetInOrder(properties), 1)
                    \o <<" IS UNIQUE;">>,
      params |-> <<>>]

DropLabelIndexQuery(label) ==
  [statement |-> <<"DROP INDEX ON :">> \o EscapeName(label) \o <<";">>,
   params |-> <<>>]

DropLabelPropertyIndexQuery(label, property) ==
  [statement |-> <<"DROP INDEX ON :">> \o EscapeName(label) \o <<"(">>
                 \o EscapeName(property) \o <<");">>,
   params |-> <<>>]

RemoveLabelFromNodesQuery(label) ==
  [statement |-> <<"MATCH (u) REMOVE u:">> \o EscapeName(label) \o <<";">>,
   params |-> <<>>]

RemovePropertyFromNodesQuery(property) ==
  [statement |-> <<"MATCH (u) REMOVE u.">> \o EscapeName(property) \o <<";">>,
   params |-> <<>>]

\* The std::set<std::string> the unique-constraint loop of MigrateSqlDatabase
\* fills from the constraint's column positions.
UniqueConstraintProperties(columns, positions) ==
  {columns[positions[k]] : k \in DOMAIN positions}

\* ---- the arguments the statement builders are applied to

Names ==
  { <<"a">>, <<"b", "a">>, <<Backtick>>, <<Backtick, Backtick>>,
    <<"a", Backtick>> }

ShortNames == { <<"b", "a">>, <<Backtick>> }

LabelSets == { {<<"a", Backtick>>}, {<<"b", "a">>, <<"a">>} }

PropertyMaps ==
  { <<>>,
    << <<<<"b", "a">>, Str("x")>> >>,
    << <<<<Backtick, Backtick>>, Null>>, <<<<"a">>, Str("y")>> >> }

IdMaps ==
  { << <<<<"a">>, Str("k")>> >>,
    << <<<<"b", "a">>, Str("k")>>, <<<<Backtick>>, Str("m")>> >> }

\* The columns of a table, and the column positions a unique constraint on
\* it may list.
TableColumns == << <<"b", "a">>, <<"a">>, <<Backtick>> >>

ConstraintColumns == { <<1>>, <<2, 1>>, <<1, 2>>, <<3, 1>>, <<1, 2, 3>> }

\* SchemaInfo of a source without tables.
NoSchema ==
  [tables |-> <<>>, foreign_keys |-> <<>>, unique_constraints |-> <<>>,
   existence_constraints |-> <<>>]

InitStatements ==
  /\ schema = NoSchema
  /\ pc = "statements"
  /\ ti = 1
  /\ ci = 1
  /\ cur = NoRow
  /\ fi = 1
  /\ fetched = 0
  /\ log = <<>>
  /\ answer = [ok |-> TRUE, count |-> 0]
  /\ delivered = <<>>
  /\ classified = <<>>
  /\ NoMemgraph
  /\ NoSqlClient

\* Appends what a primitive hands to Execute, with the arguments it got.
Build(arguments, query) ==
  /\ pc = "statements"
  /\ Len(log) < MaxStatements
  /\ log' = Append(log, [f \in DOMAIN arguments \cup DOMAIN query |->
                          IF f \in DOMAIN query THEN query[f]
                          ELSE arguments[f]])
  /\ UNCHANGED <<schema, graph_vars, sql_client_vars, pc, ti, ci, cur, fi, fetched, answer, delivered,
                 classified>>

BuildCreateNode ==
  \E labels \in LabelSets, properties \in PropertyMaps :
    Build([call |-> "CreateNode", labels |-> labels,
           properties |-> properties],
          CreateNodeQuery(labels, properties))

BuildCreateRelationships ==
  \E id1 \in IdMaps, properties \in PropertyMaps, use_merge \in BOOLEAN :
    LET label1 == <<Backtick>>
        label2 == <<"a">>
        id2 == << <<<<"a", Backtick>>, Null>> >>
        edge_type == <<Backtick, Backtick>>
    IN Build([call |-> "CreateRelationships", label1 |-> label1,
              id1 |-> id1, label2 |-> label2, id2 |-> id2,
              edge_type |-> edge_type, properties |-> properties,
              use_merge |-> use_merge],
             CreateRelationshipsQuery(label1, id1, label2, id2, edge_type,
                                      properties, use_merge))

BuildCreateLabelIndex ==
  \E label \in ShortNames :
    Build([call |-> "CreateLabelIndex", label |-> label],
          CreateLabelIndexQuery(label))

BuildCreateLabelPropertyIndex ==
  \E property \in ShortNames :
    LET label == <<"a", Backtick>> IN
    Build([call |-> "CreateLabelPropertyIndex", label |-> label,
           property |-> property],
          CreateLabelPropertyIndexQuery(label, property))

BuildCreateExistenceConstraint ==
  \E property \in ShortNames :
    LET label == <<"a", Backtick>> IN
    Build([call |-> "CreateExistenceConstraint", label |-> label,
           property |-> property],
          CreateExistenceConstraintQuery(label, property))

\* The body of the unique-constraint loop of MigrateSqlDatabase.
BuildCreateUniqueConstraint ==
  \E positions \in ConstraintColumns :
    LET label == <<"a">>
        properties == UniqueConstraintProperties(TableColumns, positions)
    IN Build([call |-> "CreateUniqueConstraint", label |-> label,
              columns |-> [k \in DOMAIN positions |->
                             TableColumns[positions[k]]]],
             CreateUniqueConstraintQuery(label, properties))

BuildDropLabelIndex ==
  \E label \in ShortNames :
    Build([call |-> "DropLabelIndex", label |-> label],
          DropLabelIndexQuery(label))

BuildDropLabelPropertyIndex ==
  \E property \in ShortNames :
    LET label == <<"a", Backtick>> IN
    Build([call |-> "DropLabelPropertyIndex", label |-> label,
           property |-> property],
          DropLabelPropertyIndexQuery(label, property))

BuildRemoveLabelFromNodes ==
  \E label \in Names :
    Build([call |-> "RemoveLabelFromNodes", label |-> label],
          RemoveLabelFromNodesQuery(label))

BuildRemovePropertyFromNodes ==
  \E property \in ShortNames :
    Build([call |-> "RemovePropertyFromNodes", property |-> property],
          RemovePropertyFromNodesQuery(property))

NextStatements ==
  \/ BuildCreateNode
  \/ BuildCreateRelationships
  \/ BuildCreateLabelIndex
  \/ BuildCreateLabelPropertyIndex
  \/ BuildCreateExistenceConstraint
  \/ BuildCreateUniqueConstraint
  \/ BuildDropLabelIndex
  \/ BuildDropLabelPropertyIndex
  \/ BuildRemoveLabelFromNodes
  \/ BuildRemovePropertyFromNodes

SpecStatements == InitStatements /\ [][NextStatements]_vars

\* ---- reading a statement back

\* The names found in a text by scanning it: a backtick opens a name, two
\* backticks inside a name stand for one, a single backtick closes it.
RECURSIVE ScanNames(_, _, _, _)
ScanNames(text, i, open, name) ==
  IF i > Len(text) THEN <<>>
  ELSE IF ~open
  THEN ScanNames(text, i + 1, text[i] = Backtick, <<>>)
  ELSE IF text[i] # Backtick
  THEN ScanNames(text, i + 1, TRUE, Append(name, text[i]))
  ELSE IF i < Len(text) /\ text[i + 1] = Backtick
  THEN ScanNames(text, i + 2, TRUE, Append(name, Backtick))
  ELSE <<name>> \o ScanNames(text, i + 1, FALSE, <<>>)

NamesIn(text) == ScanNames(text, 1, FALSE, <<>>)

IsUniqueConstraint(e) == e.call = "CreateUniqueConstraint"

\* C13 as stated: create_unique_constraint renders the property keys in the
\* order the columns have in the constraint's column list.
C13_KeysInConstraintOrder ==
  \A i \in DOMAIN log :
    IsUniqueConstraint(log[i])
      => NamesIn(log[i].statement) = <<log[i].label>> \o log[i].columns

\* C13: create_unique_constraint renders each property key of the
\* constraint once, in ascending byte order of the names, whatever order
\* the columns have in the constraint's column list.
C13_KeysInNameOrder ==
  \A i \in DOMAIN log :
    IsUniqueConstraint(log[i]) =>
      LET names == NamesIn(log[i].statement)
          keys == Tail(names)
      IN /\ names # <<>> /\ Head(names) = log[i].label
         /\ Len(keys) = Len(log[i].columns)
         /\ {keys[k] : k \in DOMAIN keys}
              = {log[i].columns[k] : k \in DOMAIN log[i].columns}
         /\ \A j, k \in DOMAIN keys : j < k => StringLess(keys[j], keys[k])

\* A unique constraint over two columns whose statement lists the keys in
\* another order than the constraint's column list.
C13_Witness ==
  \E i \in DOMAIN log :
    /\ IsUniqueConstraint(log[i])
    /\ Len(log[i].columns) = 2
    /\ Tail(NamesIn(log[i].statement)) # log[i].columns

\* The values of an mg::Map, in entry order.
ValuesOf(map) == [k \in DOMAIN map |-> map[k][2]]

\* The keys of an mg::Map, in entry order.
KeysOf(map) == [k \in DOMAIN map |-> map[k][1]]

\* The value leaves of a primitive's arguments, in statement order.
Leaves(e) ==
  CASE e.call = "CreateNode" -> ValuesOf(e.properties)
    [] e.call = "CreateRelationships" ->
         ValuesOf(e.id1) \o ValuesOf(e.id2) \o ValuesOf(e.properties)
    [] OTHER -> <<>>

ParameterName(n) == "param" \o ToString(n)

IsPlaceholder(piece) == \E n \in 0..9 : piece = "$" \o ParameterName(n)

NamesWritten(e) ==
  CASE e.call = "CreateNode" -> SetInOrder(e.labels) \o KeysOf(e.properties)
    [] e.call = "CreateRelationships" ->
         <<e.label1, e.label2>> \o KeysOf(e.id1) \o KeysOf(e.id2)
         \o <<e.edge_type>> \o KeysOf(e.properties)
    [] e.call \in {"CreateLabelIndex", "DropLabelIndex",
                   "RemoveLabelFromNodes"} -> <<e.label>>
    [] e.call = "RemovePropertyFromNodes" -> <<e.property>>
    [] e.call = "CreateUniqueConstraint" ->
         <<e.label>>
         \o SetInOrder({e.columns[k] : k \in DOMAIN e.columns})
    [] OTHER -> <<e.label, e.property>>

AllNamesWritten ==
  UNION {{NamesWritten(log[i])[k] : k \in DOMAIN NamesWritten(log[i])} :
           i \in DOMAIN log}

Backticks(name) == {k \in DOMAIN name : name[k] = Backtick}

\* The escaped form of a name, position by position: a backtick, then each
\* character of the name once, twice if it is a backtick, then a backtick.
IsEscapedFormOf(text, name) ==
  /\ Len(text) = Len(name) + Cardinality(Backticks(name)) + 2
  /\ text[1] = Backtick
  /\ text[Len(text)] = Backtick
  /\ \A k \in DOMAIN name :
       LET at == k + 1 + Cardinality({b \in Backticks(name) : b < k})
       IN /\ text[at] = name[k]
          /\ name[k] = Backtick => text[at + 1] = Backtick

MaxVertices == 2
MaxRelationships == 1

\* mg::Value of type Int.
IntValue(n) == [type |-> "Int", int |-> n]

\* std::optional<std::vector<mg::Value>>: no row, or a row.
nullopt == [has_value |-> FALSE, value |-> <<>>]
Row(values) == [has_value |-> TRUE, value |-> values]

\* The label and the property the migration marks every vertex with.
internal_node_label == "__mg_vertex__"
internal_property_id == "__mg_id__"

\* What the source hands to the callbacks of ReadNodes and ReadRelationships,
\* and what ReadIndices and ReadConstraints return.
Node(i) == [id |-> i, labels |-> {"Person"}, properties |-> <<>>]
Relationship(j) ==
  [from |-> 1, to |-> j, type |-> "KNOWS", properties |-> <<>>]
IndexInfo(present) ==
  [label |-> IF present THEN <<"Person">> ELSE <<>>,
   label_property |-> IF present THEN << <<"Person", "name">> >> ELSE <<>>]
ConstraintInfo(present) ==
  [existence |-> IF present THEN << <<"Person", "name">> >> ELSE <<>>,
   unique |-> IF present THEN << <<"Person", {"name", "born"}>> >> ELSE <<>>]
Graphs ==
  { [vertices |-> n, relationships |-> m, index_info |-> IndexInfo(i),
     constraint_info |-> ConstraintInfo(c)] :
    n \in 0..MaxVertices, m \in 0..MaxRelationships,
    i \in BOOLEAN, c \in BOOLEAN }

\* Rows a destination may stream as the result of one statement, and how it
\* may treat a statement: refuse it, or run it and stream some rows.
ResultRows ==
  { <<IntValue(0)>>, <<IntValue(1)>>, <<IntValue(2)>>, <<Str("1")>>, <<>>,
    <<IntValue(1), IntValue(1)>> }
ResultStreams ==
  {<<>>} \cup {<<r>> : r \in ResultRows}
         \cup {<< <<IntValue(1)>>, <<IntValue(1)>> >>}
Replies ==
  {[executed |-> FALSE, rows |-> <<>>]}
    \cup {[executed |-> TRUE, rows |-> r] : r \in ResultStreams}

\* The client as the primitives see it: its stream, its kind, and the calls
\* made on it so far.
Client == [stream |-> stream, strict |-> strict, log |-> log]

\* MemgraphClient::Execute.  The statement is refused when the server
\* refuses it, and by a strict client when the previous result stream has not
\* been fetched to its end; a client that is not strict starts the new
\* stream in place of the old one.
Execute(client, call, reply) ==
  LET accepted == reply.executed /\ ~(client.strict /\ client.stream.open)
  IN [client |->
        [client EXCEPT
           !.stream = IF accepted THEN [open |-> TRUE, rows |-> reply.rows]
                      ELSE @,
           !.log = Append(@, [op |-> "Execute", call |-> call,
                              open |-> client.stream.open,
                              accepted |-> accepted])],
      returned |-> accepted]

\* MemgraphClient::FetchOne: the next row of the stream, or nullopt at its
\* end (and when there is nothing under execution), which closes it.
FetchOne(client) ==
  LET has_row == client.stream.open /\ client.stream.rows # <<>>
      row == IF has_row THEN Row(Head(client.stream.rows)) ELSE nullopt
  IN [client |->
        [client EXCEPT
           !.stream = IF has_row THEN [open |-> TRUE, rows |-> Tail(@.rows)]
                      ELSE NoStream,
           !.log = Append(@, [op |-> "FetchOne",
                              open |-> client.stream.open, row |-> row])],
      returned |-> row]

\* How a primitive ends: it returns (with a count, for CreateRelationships)
\* or one of its CHECKs ends the process.
Returns(client, value) == [client |-> client, failed |-> FALSE, value |-> value]
Fails(client) == [client |-> client, failed |-> TRUE, value |-> 0]

\* The tail shared by CreateNode, the index and the constraint primitives:
\* CHECK(client->Execute(...)); CHECK(!client->FetchOne()).
Statement(client, call, reply) ==
  LET run == Execute(client, call, reply)
  IN IF ~run.returned THEN Fails(run.client)
     ELSE LET end == FetchOne(run.client)
          IN IF end.returned.has_value THEN Fails(end.client)
             ELSE Returns(end.client, 0)

\* The tail of CreateRelationships without the second FetchOne.
CountedStatement_FetchesOnce(client, call, reply) ==
  LET run == Execute(client, call, reply)
  IN IF ~run.returned THEN Fails(run.client)
     ELSE LET result == FetchOne(run.client)
          IN IF ~result.returned.has_value THEN Fails(result.client)
             ELSE IF ~(Len(result.returned.value) = 1
                        /\ result.returned.value[1].type = "Int")
             THEN Fails(result.client)
             ELSE Returns(result.client, result.returned.value[1].int)

\* The tail of CreateRelationships: one row, then the end of the stream, and
\* the row is a single integer, which is returned.
CountedStatement(client, call, reply) ==
  LET run == Execute(client, call, reply)
  IN IF ~run.returned THEN Fails(run.client)
     ELSE LET result == FetchOne(run.client)
          IN IF ~result.returned.has_value THEN Fails(result.client)
             ELSE LET end == FetchOne(result.client)
                  IN IF end.returned.has_value THEN Fails(end.client)
                     ELSE IF ~(Len(result.returned.value) = 1
                                /\ result.returned.value[1].type = "Int")
                     THEN Fails(end.client)
                     ELSE Returns(end.client, result.returned.value[1].int)

\* RemoveLabelFromNodes and RemovePropertyFromNodes:
\* CHECK(client->Execute(query)); CHECK(!client->Execute(query)).
Sweep(client, call, reply, again) ==
  LET run == Execute(client, call, reply)
  IN IF ~run.returned THEN Fails(run.client)
     ELSE LET second == Execute(run.client, call, again)
          IN IF second.returned THEN Fails(second.client)
             ELSE Returns(second.client, 0)

RemoveLabelFromNodes(label) ==
  [call |-> "RemoveLabelFromNodes", label |-> label]

RemovePropertyFromNodes(property) ==
  [call |-> "RemovePropertyFromNodes", property |-> property]

\* ---- MigrateMemgraphDatabase

\* MigrateMemgraphDatabase with the internal index created before the
\* vertices are read.
MigrationOrder_IndexFirst ==
  << "InternalIndex", "ReadNodes", "ReadRelationships", "LabelIndices",
     "LabelPropertyIndices", "ExistenceConstraints", "UniqueConstraints",
     "DropInternalIndex", "RemoveLabel", "RemoveProperty", "done" >>

\* The steps of MigrateMemgraphDatabase, in the order it takes them.
MigrationOrder ==
  << "ReadNodes", "InternalIndex", "ReadRelationships", "LabelIndices",
     "LabelPropertyIndices", "ExistenceConstraints", "UniqueConstraints",
     "DropInternalIndex", "RemoveLabel", "RemoveProperty", "done" >>

\* How many times a step calls the destination.
Items(step) ==
  CASE step = "ReadNodes" -> graph.vertices
    [] step = "ReadRelationships" -> graph.relationships
    [] step = "LabelIndices" -> Len(graph.index_info.label)
    [] step = "LabelPropertyIndices" -> Len(graph.index_info.label_property)
    [] step = "ExistenceConstraints" -> Len(graph.constraint_info.existence)
    [] step = "UniqueConstraints" -> Len(graph.constraint_info.unique)
    [] OTHER -> 1

\* The first step from position k on that has something to do.
StepFrom(k) ==
  MigrationOrder[CHOOSE j \in k..Len(MigrationOrder) :
                   /\ Items(MigrationOrder[j]) > 0
                   /\ \A i \in k..(j - 1) : Items(MigrationOrder[i]) = 0]

\* Where the run is after item number n of a step has been handled.
AfterItem(step, n) ==
  IF n < Items(step) THEN <<step, n>>
  ELSE LET k == CHOOSE i \in DOMAIN MigrationOrder : MigrationOrder[i] = step
       IN <<StepFrom(k + 1), 0>>

\* The state after a primitive has been called for item n of the step the
\* run is in: the client as the primitive left it, and the next position
\* unless a CHECK ended the process.  accepted is the caller's own CHECK on
\* the value returned.
Called(outcome, n, accepted) ==
  LET next == AfterItem(pc, n)
      reading == next[1] \in {"ReadNodes", "ReadRelationships"}
  IN /\ log' = outcome.client.log
     /\ stream' = outcome.client.stream
     /\ answer' = [ok |-> ~outcome.failed, count |-> outcome.value]
     /\ IF outcome.failed \/ ~accepted
        THEN pc' = "aborted" /\ UNCHANGED <<fetched, ci>>
        ELSE /\ pc' = next[1]
             /\ fetched' = IF reading THEN next[2] ELSE 0
             /\ ci' = IF reading THEN 1 ELSE next[2] + 1
     /\ UNCHANGED <<schema, ti, cur, fi, delivered, classified, graph,
                    strict, created_internal_index_, sql_client_vars>>

InitGraph ==
  /\ schema = NoSchema
  /\ graph \in Graphs
  /\ strict \in BOOLEAN
  /\ stream = NoStream
  /\ created_internal_index_ = FALSE
  /\ pc = StepFrom(1)
  /\ ti = 1
  /\ ci = 1
  /\ cur = NoRow
  /\ fi = 1
  /\ fetched = 0
  /\ log = <<>>
  /\ answer = [ok |-> TRUE, count |-> 0]
  /\ delivered = <<>>
  /\ classified = <<>>
  /\ NoSqlClient

\* The callback of ReadNodes: the vertex is created with the internal label
\* added and its id as the first property.
GraphNode ==
  /\ pc = "ReadNodes"
  /\ \E reply \in Replies :
       LET node == Node(fetched + 1)
           label_set == {internal_node_label} \cup node.labels
           properties == << <<internal_property_id, IntValue(node.id)>> >>
                           \o node.properties
       IN Called(Statement(Client, CreateNode(label_set, properties), reply),
                 fetched + 1, TRUE)

\* The internal label+id index.
GraphInternalIndex ==
  /\ pc = "InternalIndex"
  /\ \E reply \in Replies :
       Called(Statement(Client,
                        CreateLabelPropertyIndex(internal_node_label,
                                                 internal_property_id),
                        reply),
              1, TRUE)

\* The callback of ReadRelationships: both ends are matched by the internal
\* label and id, and exactly one relationship must have been created.
GraphRelationship ==
  /\ pc = "ReadRelationships"
  /\ \E reply \in Replies :
       LET rel == Relationship(fetched + 1)
           id1 == << <<internal_property_id, IntValue(rel.from)>> >>
           id2 == << <<internal_property_id, IntValue(rel.to)>> >>
           created ==
             CountedStatement(Client,
                              CreateRelationships(internal_node_label, id1,
                                                  internal_node_label, id2,
                                                  rel.type, rel.properties,
                                                  FALSE),
                              reply)
       IN Called(created, fetched + 1, created.value = 1)

GraphLabelIndex ==
  /\ pc = "LabelIndices"
  /\ \E reply \in Replies :
       Called(Statement(Client, CreateLabelIndex(graph.index_info.label[ci]),
                        reply),
              ci, TRUE)

GraphLabelPropertyIndex ==
  /\ pc = "LabelPropertyIndices"
  /\ \E reply \in Replies :
       LET index == graph.index_info.label_property[ci]
       IN Called(Statement(Client,
                           CreateLabelPropertyIndex(index[1], index[2]),
                           reply),
                 ci, TRUE)

GraphExistenceConstraint ==
  /\ pc = "ExistenceConstraints"
  /\ \E reply \in Replies :
       LET constraint == graph.constraint_info.existence[ci]
       IN Called(Statement(Client,
                           CreateExistenceConstraint(constraint[1],
                                                     constraint[2]),
                           reply),
                 ci, TRUE)

GraphUniqueConstraint ==
  /\ pc = "UniqueConstraints"
  /\ \E reply \in Replies :
       LET constraint == graph.constraint_info.unique[ci]
       IN Called(Statement(Client,
                           CreateUniqueConstraint(constraint[1],
                                                  constraint[2]),
                           reply),
                 ci, TRUE)

\* Removal of the internal index, label and property.
GraphDropInternalIndex ==
  /\ pc = "DropInternalIndex"
  /\ \E reply \in Replies :
       Called(Statement(Client,
                        DropLabelPropertyIndex(internal_node_label,
                                               internal_property_id),
                        reply),
              1, TRUE)

GraphRemoveLabel ==
  /\ pc = "RemoveLabel"
  /\ \E reply \in Replies, again \in Replies :
       Called(Sweep(Client, RemoveLabelFromNodes(internal_node_label),
                    reply, again),
              1, TRUE)

GraphRemoveProperty ==
  /\ pc = "RemoveProperty"
  /\ \E reply \in Replies, again \in Replies :
       Called(Sweep(Client, RemovePropertyFromNodes(internal_property_id),
                    reply, again),
              1, TRUE)

NextGraph ==
  \/ GraphNode
  \/ GraphInternalIndex
  \/ GraphRelationship
  \/ GraphLabelIndex
  \/ GraphLabelPropertyIndex
  \/ GraphExistenceConstraint
  \/ GraphUniqueConstraint
  \/ GraphDropInternalIndex
  \/ GraphRemoveLabel
  \/ GraphRemoveProperty

SpecGraph == InitGraph /\ [][NextGraph]_vars

\* ---- the calls on the client

IsExecute(e) == e.op = "Execute"
IsFetchOne(e) == e.op = "FetchOne"

\* The position in the log of the latest Execute (0 when there is none).
LatestExecute ==
  LET executes == {i \in DOMAIN log : IsExecute(log[i])}
  IN IF executes = {} THEN 0
     ELSE CHOOSE i \in executes : \A j \in executes : j <= i

\* What the client returned to the FetchOne calls made after position i.
FetchedAfter(i) ==
  [k \in 1..(Len(log) - i) |-> log[i + k].row]

\* C16 as stated: every primitive, the two sweeps included, executes its
\* statement once and fetches until the client reports the end of the
\* stream, so that Execute is never called while a stream is open.
C16_ExecuteOnceThenDrain ==
  \A i \in DOMAIN log :
    IsExecute(log[i]) =>
      /\ ~log[i].open
      /\ (log[i].accepted /\ i < Len(log) => IsFetchOne(log[i + 1]))

\* The latest statement executed is the one of create_relationship.
RelationshipIsLatest ==
  LatestExecute > 0 /\ log[LatestExecute].call.call = "CreateRelationships"

\* C17: create_relationship returns exactly when the statement was executed
\* and its stream held one row that is a single integer, followed by the end
\* of the stream, and then returns that integer; with no row, a second row
\* or a row of another shape the process ends.  The caller of the
\* graph-to-graph migration goes on only when the integer is 1.
C17_SingleIntegerRow ==
  RelationshipIsLatest =>
    LET rows == FetchedAfter(LatestExecute)
        single == /\ log[LatestExecute].accepted
                  /\ Len(rows) = 2
                  /\ rows[1].has_value
                  /\ ~rows[2].has_value
                  /\ Len(rows[1].value) = 1
                  /\ rows[1].value[1].type = "Int"
    IN /\ answer.ok <=> single
       /\ answer.ok => answer.count = rows[1].value[1].int
       /\ pc # "aborted" <=> (answer.ok /\ answer.count = 1)

\* A relationship was created and counted as one, and the run went on.
C17_Witness ==
  /\ RelationshipIsLatest
  /\ answer = [ok |-> TRUE, count |-> 1]
  /\ pc \notin {"aborted", "ReadRelationships"}

\* The positions in the log where a statement of the given kind was handed
\* to Execute.
ExecutesOf(kind) ==
  {i \in DOMAIN log : IsExecute(log[i]) /\ log[i].call.call = kind}

\* The positions in the log where the internal index was asked for.
InternalIndexCreations ==
  {i \in DOMAIN log :
     /\ IsExecute(log[i])
     /\ log[i].call = CreateLabelPropertyIndex(internal_node_label,
                                               internal_property_id)}

\* The run has left the step that creates the internal index behind.
PastInternalIndex ==
  pc \notin {"ReadNodes", "InternalIndex", "aborted"}

ServerRefusedNothing ==
  \A i \in DOMAIN log :
    IsExecute(log[i]) /\ ~log[i].accepted => log[i].open

\* The statement of the given call was executed successfully.
Executed(call) ==
  \E i \in DOMAIN log :
    IsExecute(log[i]) /\ log[i].call = call /\ log[i].accepted

\* The migration has called the given primitive.
WasCalled(call) ==
  \E i \in DOMAIN log : IsExecute(log[i]) /\ log[i].call = call

MaxCalls == 3

\* The statement of the destructor that removes the internal label and
\* property from every vertex.
RemoveInternalLabelProperty ==
  [call |-> "RemoveInternalLabelProperty", label |-> internal_node_label,
   property |-> internal_property_id]

\* How a method leaves the object: the outcome of its last statement and
\* the flag.
Left(outcome, flag) ==
  [client |-> outcome.client, failed |-> outcome.failed,
   value |-> outcome.value, created_internal_index_ |-> flag]

\* MemgraphDestination::CreateVertex: on the first call the internal index
\* is created and the flag set, then the vertex is created with the
\* internal label and its id.
CreateVertex(client, flag, vertex, index_reply, reply) ==
  LET index == IF flag THEN Returns(client, 0)
               ELSE Statement(client,
                              CreateLabelPropertyIndex(internal_node_label,
                                                       internal_property_id),
                              index_reply)
      properties == << <<internal_property_id, IntValue(vertex.id)>> >>
                      \o vertex.properties
  IN IF index.failed THEN Left(index, flag)
     ELSE Left(Statement(index.client,
                           CreateNode({internal_node_label}
                                        \cup vertex.labels, properties),
                           reply),
                 TRUE)

\* MemgraphDestination::CreateEdge: refused before any vertex was created;
\* the statement returns one row whose content is not looked at.
CreateEdge(client, flag, edge, reply) ==
  LET id1 == << <<internal_property_id, IntValue(edge.from)>> >>
      id2 == << <<internal_property_id, IntValue(edge.to)>> >>
      call == CreateRelationships(internal_node_label, id1,
                                  internal_node_label, id2, edge.type,
                                  edge.properties, FALSE)
      run == Execute(client, call, reply)
  IN IF ~flag THEN Left(Fails(client), flag)
     ELSE IF ~run.returned THEN Left(Fails(run.client), flag)
     ELSE LET result == FetchOne(run.client)
          IN IF ~result.returned.has_value
             THEN Left(Fails(result.client), flag)
             ELSE LET end == FetchOne(result.client)
                  IN IF end.returned.has_value
                     THEN Left(Fails(end.client), flag)
                     ELSE Left(Returns(end.client, 0), flag)

\* A destructor that cleans up whether or not the flag is set.
Destructor_Always(client, flag, drop_reply, remove_reply) ==
  LET drop == Statement(client,
                        DropLabelPropertyIndex(internal_node_label,
                                               internal_property_id),
                        drop_reply)
  IN IF drop.failed THEN Left(drop, flag)
     ELSE Left(Statement(drop.client, RemoveInternalLabelProperty,
                           remove_reply),
                 flag)

\* MemgraphDestination::~MemgraphDestination: with the flag set, the
\* internal index is dropped and then the internal label and property are
\* removed; otherwise nothing is sent.
Destructor(client, flag, drop_reply, remove_reply) ==
  IF ~flag THEN Left(Returns(client, 0), flag)
  ELSE LET drop == Statement(client,
                             DropLabelPropertyIndex(internal_node_label,
                                                    internal_property_id),
                             drop_reply)
       IN IF drop.failed THEN Left(drop, flag)
          ELSE Left(Statement(drop.client, RemoveInternalLabelProperty,
                                remove_reply),
                      flag)

InitDestination ==
  /\ schema = NoSchema
  /\ graph = NoGraph
  /\ strict \in BOOLEAN
  /\ stream = NoStream
  /\ created_internal_index_ = FALSE
  /\ pc = "destination"
  /\ ti = 1
  /\ ci = 1
  /\ cur = NoRow
  /\ fi = 1
  /\ fetched = 0
  /\ log = <<>>
  /\ answer = [ok |-> TRUE, count |-> 0]
  /\ delivered = <<>>
  /\ classified = <<>>
  /\ NoSqlClient

\* The object after a method call, or after the destructor (then the object
\* is gone); a failed CHECK ends the process.
Method(left, next) ==
  /\ log' = left.client.log
  /\ stream' = left.client.stream
  /\ created_internal_index_' = left.created_internal_index_
  /\ answer' = [ok |-> ~left.failed, count |-> left.value]
  /\ pc' = IF left.failed THEN "aborted" ELSE next
  /\ fetched' = fetched + 1
  /\ UNCHANGED <<schema, ti, ci, cur, fi, delivered, classified, graph,
                 strict, sql_client_vars>>

CallCreateVertex ==
  /\ pc = "destination"
  /\ fetched < MaxCalls
  /\ \E index_reply \in Replies, reply \in Replies :
       Method(CreateVertex(Client, created_internal_index_,
                           Node(fetched + 1), index_reply, reply),
              "destination")

CallCreateEdge ==
  /\ pc = "destination"
  /\ fetched < MaxCalls
  /\ \E reply \in Replies :
       Method(CreateEdge(Client, created_internal_index_, Relationship(1),
                         reply),
              "destination")

CallCreateLabelIndex ==
  /\ pc = "destination"
  /\ fetched < MaxCalls
  /\ \E reply \in Replies :
       Method(Left(Statement(Client, CreateLabelIndex("Person"), reply),
                     created_internal_index_),
              "destination")

CallCreateLabelPropertyIndex ==
  /\ pc = "destination"
  /\ fetched < MaxCalls
  /\ \E reply \in Replies :
       Method(Left(Statement(Client,
                               CreateLabelPropertyIndex("Person", "name"),
                               reply),
                     created_internal_index_),
              "destination")

CallCreateExistenceConstraint ==
  /\ pc = "destination"
  /\ fetched < MaxCalls
  /\ \E reply \in Replies :
       Method(Left(Statement(Client,
                               CreateExistenceConstraint("Person", "name"),
                               reply),
                     created_internal_index_),
              "destination")

CallCreateUniqueConstraint ==
  /\ pc = "destination"
  /\ fetched < MaxCalls
  /\ \E reply \in Replies :
       Method(Left(Statement(Client,
                               CreateUniqueConstraint("Person",
                                                      {"name", "born"}),
                               reply),
                     created_internal_index_),
              "destination")

Destroy ==
  /\ pc = "destination"
  /\ \E drop_reply \in Replies, remove_reply \in Replies :
       Method(Destructor(Client, created_internal_index_, drop_reply,
                         remove_reply),
              "destroyed")

NextDestination ==
  \/ CallCreateVertex
  \/ CallCreateEdge
  \/ CallCreateLabelIndex
  \/ CallCreateLabelPropertyIndex
  \/ CallCreateExistenceConstraint
  \/ CallCreateUniqueConstraint
  \/ Destroy

SpecDestination == InitDestination /\ [][NextDestination]_vars

\* ---- the destructor's cleanup

DropInternalIndex ==
  DropLabelPropertyIndex(internal_node_label, internal_property_id)

IsCleanup(e) ==
  IsExecute(e) /\ e.call \in {DropInternalIndex, RemoveInternalLabelProperty}

\* The cleanup statements handed to Execute, in order.
CleanupCalls ==
  LET executes == SelectSeq(log, IsCleanup)
  IN [k \in DOMAIN executes |-> executes[k].call]

\* The statement that creates a vertex has been executed.
VertexCreated ==
  \E i \in ExecutesOf("CreateNode") : log[i].accepted

\* C20: the destructor of MemgraphDestination sends the cleanup (the drop of
\* the internal index, then the removal of the internal label and property,
\* each once and both executed) if and only if at least one vertex was
\* created; a destination destroyed without one has sent neither a cleanup
\* statement nor a statement for the internal index, and no cleanup
\* statement is sent before the destructor runs.
C20_CleanupIffVertexCreated ==
  /\ pc = "destination" => CleanupCalls = <<>>
  /\ CleanupCalls # <<>> => VertexCreated
  /\ pc = "destroyed" =>
       IF VertexCreated
       THEN /\ CleanupCalls = <<DropInternalIndex, RemoveInternalLabelProperty>>
            /\ Executed(DropInternalIndex)
            /\ Executed(RemoveInternalLabelProperty)
       ELSE /\ CleanupCalls = <<>>
            /\ InternalIndexCreations = {}

\* A destination destroyed after it created a vertex and an edge.
C20_Witness ==
  /\ pc = "destroyed"
  /\ VertexCreated
  /\ ExecutesOf("CreateRelationships") # {}
  /\ Len(CleanupCalls) = 2

\* ---------------------------------------------------------------------------
\* PostgresqlClient (postgresql.cpp): Execute declares a cursor inside a
\* transaction, FetchOne reads it one row at a time and releases both at
\* the end of the result.  The caller makes the two calls in any order.
\* ---------------------------------------------------------------------------

\* Calls made on one client.
MaxClientCalls == 5

\* Results a statement may have: the rows of a table in the order the server
\* delivers them.
StatementRows ==
  { <<>>,
    << <<Str("a1"), Str("Bale")>> >>,
    << <<Str("a2"), Null>>, <<Str("a1"), Str("Bale")>> >> }

\* How the declaration of the cursor may go: it succeeds, the transaction or
\* the cursor throws one of the two exceptions Execute catches, or something
\* else is thrown, which nothing catches.
ExecuteOutcomes == {"declared", "work_failed", "cursor_failed", "uncaught"}

\* The members of the client the methods work on.
SqlClient == [cursor_ |-> cursor_, work_ |-> work_]

\* PostgresqlClient::Execute that does not look at cursor_.
PostgresqlClient_Execute_NoBusyTest(client, outcome, rows) ==
  CASE outcome = "declared" ->
         [client |-> [cursor_ |-> [has_value |-> TRUE, rows |-> rows],
                      work_ |-> TRUE],
          returned |-> TRUE, ended |-> FALSE]
    [] outcome = "work_failed" ->
         [client |-> [client EXCEPT !.work_ = FALSE],
          returned |-> FALSE, ended |-> FALSE]
    [] outcome = "cursor_failed" ->
         [client |-> [client EXCEPT !.work_ = TRUE],
          returned |-> FALSE, ended |-> FALSE]
    [] OTHER ->
         [client |-> client, returned |-> FALSE, ended |-> TRUE]

\* PostgresqlClient::Execute: refused while a cursor is open; otherwise a
\* transaction is started and the cursor declared in it.
PostgresqlClient_Execute(client, outcome, rows) ==
  IF client.cursor_.has_value
  THEN [client |-> client, returned |-> FALSE, ended |-> FALSE]
  ELSE CASE outcome = "declared" ->
              [client |-> [cursor_ |-> [has_value |-> TRUE, rows |-> rows],
                           work_ |-> TRUE],
               returned |-> TRUE, ended |-> FALSE]
         [] outcome = "work_failed" ->
              [client |-> [client EXCEPT !.work_ = FALSE],
               returned |-> FALSE, ended |-> FALSE]
         [] outcome = "cursor_failed" ->
              [client |-> [client EXCEPT !.work_ = TRUE],
               returned |-> FALSE, ended |-> FALSE]
         [] OTHER ->
              [client |-> client, returned |-> FALSE, ended |-> TRUE]

\* PostgresqlClient::FetchOne that keeps the cursor at the end of the
\* result.
PostgresqlClient_FetchOne_KeepsCursor(client, sql_error) ==
  IF ~client.cursor_.has_value
  THEN [client |-> client, returned |-> nullopt, ended |-> FALSE]
  ELSE IF sql_error
  THEN [client |-> client, returned |-> nullopt, ended |-> TRUE]
  ELSE IF client.cursor_.rows # <<>>
  THEN [client |-> [client EXCEPT !.cursor_.rows = Tail(@)],
        returned |-> Row(Head(client.cursor_.rows)), ended |-> FALSE]
  ELSE [client |-> client, returned |-> nullopt, ended |-> FALSE]

\* PostgresqlClient::FetchOne: nothing without a cursor; otherwise the next
\* row, or at the end of the result the release of cursor and transaction.
\* An sql_error while fetching is fatal.
PostgresqlClient_FetchOne(client, sql_error) ==
  IF ~client.cursor_.has_value
  THEN [client |-> client, returned |-> nullopt, ended |-> FALSE]
  ELSE IF sql_error
  THEN [client |-> client, returned |-> nullopt, ended |-> TRUE]
  ELSE IF client.cursor_.rows # <<>>
  THEN [client |-> [client EXCEPT !.cursor_.rows = Tail(@)],
        returned |-> Row(Head(client.cursor_.rows)), ended |-> FALSE]
  ELSE [client |-> [cursor_ |-> NoCursor, work_ |-> FALSE],
        returned |-> nullopt, ended |-> FALSE]

InitSqlClient ==
  /\ schema = NoSchema
  /\ pc = "client"
  /\ ti = 1
  /\ ci = 1
  /\ cur = NoRow
  /\ fi = 1
  /\ fetched = 0
  /\ log = <<>>
  /\ answer = [ok |-> TRUE, count |-> 0]
  /\ delivered = <<>>
  /\ classified = <<>>
  /\ NoMemgraph
  /\ NoSqlClient

\* The client after a call, with the call added to the log.
ClientCalled(call, event) ==
  /\ cursor_' = call.client.cursor_
  /\ work_' = call.client.work_
  /\ log' = Append(log, event)
  /\ pc' = IF call.ended THEN "aborted" ELSE "client"
  /\ fetched' = fetched + 1
  /\ UNCHANGED <<schema, ti, ci, cur, fi, answer, delivered, classified,
                 graph_vars>>

CallExecute ==
  /\ pc = "client"
  /\ fetched < MaxClientCalls
  /\ \E outcome \in ExecuteOutcomes, rows \in StatementRows :
       LET call == PostgresqlClient_Execute(SqlClient, outcome, rows)
       IN /\ cursor_.has_value => outcome = "declared" /\ rows = <<>>
          /\ outcome # "declared" => rows = <<>>
          /\ ClientCalled(call,
                          [op |-> "Execute", busy |-> cursor_.has_value,
                           outcome |-> outcome, rows |-> rows,
                           returned |-> call.returned,
                           left |-> call.client])

CallFetchOne ==
  /\ pc = "client"
  /\ fetched < MaxClientCalls
  /\ \E sql_error \in BOOLEAN :
       LET call == PostgresqlClient_FetchOne(SqlClient, sql_error)
       IN /\ sql_error => cursor_.has_value
          /\ ClientCalled(call,
                          [op |-> "FetchOne", busy |-> cursor_.has_value,
                           row |-> call.returned, left |-> call.client])

NextSqlClient ==
  \/ CallExecute
  \/ CallFetchOne

SpecSqlClient == InitSqlClient /\ [][NextSqlClient]_vars

\* ---- the cursor discipline

\* The call at position j of the log is the one that ended the process.
EndedAt(j) == pc = "aborted" /\ j = Len(log)

\* Number of FetchOne calls at positions i+1..j of the log.
FetchesBetween(i, j) ==
  Cardinality({k \in (i + 1)..j : log[k].op = "FetchOne"})

\* What the k-th FetchOne on a result has to return.
KthOf(rows, k) == IF k <= Len(rows) THEN Row(rows[k]) ELSE nullopt

\* C21: an Execute called while a cursor is open returns false and leaves
\* the members of the client as they were, and the FetchOne calls that
\* follow it return the rows the open cursor had still to deliver, in
\* order, and then the end of the result.
C21_BusyExecuteFails ==
  \A i \in DOMAIN log :
    (log[i].op = "Execute" /\ log[i].busy) =>
      /\ ~log[i].returned
      /\ i > 1
      /\ log[i].left = log[i - 1].left
      /\ \A j \in (i + 1)..Len(log) :
           LET k == FetchesBetween(i, j)
               remaining == log[i - 1].left.cursor_.rows
           IN (log[j].op = "FetchOne" /\ k <= Len(remaining) + 1
                 /\ ~EndedAt(j))
                => log[j].row = KthOf(remaining, k)

\* An Execute was refused while a two-row result had one row left, and the
\* next FetchOne returned that row.
C21_Witness ==
  \E i \in DOMAIN log :
    /\ log[i].op = "Execute" /\ log[i].busy
    /\ i < Len(log)
    /\ log[i + 1].op = "FetchOne"
    /\ log[i + 1].row = Row(<<Str("a1"), Str("Bale")>>)
    /\ \E h \in 1..(i - 1) : log[h].op = "FetchOne" /\ log[h].row.has_value

\* The position of the latest Execute before j that returned true (0 when
\* there is none).
LatestDeclared(j) ==
  LET declared == {i \in 1..(j - 1) :
                     log[i].op = "Execute" /\ log[i].returned}
  IN IF declared = {} THEN 0
     ELSE CHOOSE i \in declared : \A h \in declared : h <= i

\* C22: after an Execute that returned true the FetchOne calls return the
\* rows of the result one at a time in the order of the result and then the
\* end of the result, which releases cursor and transaction; a FetchOne
\* after that returns the end again and changes nothing, and an Execute
\* made when no cursor is open is refused by nothing in the client: it
\* returns true when the declaration of the cursor goes through.
C22_FetchThenRelease ==
  /\ \A j \in DOMAIN log :
       (log[j].op = "FetchOne" /\ ~EndedAt(j)) =>
         LET i == LatestDeclared(j)
         IN IF i = 0
            THEN /\ log[j].row = nullopt
                 /\ ~log[j].left.cursor_.has_value
            ELSE LET k == FetchesBetween(i, j)
                     rows == log[i].rows
                 IN /\ log[j].row = KthOf(rows, k)
                    /\ k <= Len(rows) => log[j].left.cursor_.has_value
                    /\ k = Len(rows) + 1 =>
                         log[j].left = [cursor_ |-> NoCursor,
                                        work_ |-> FALSE]
                    /\ k > Len(rows) + 1 => log[j].left = log[j - 1].left
  /\ \A i \in DOMAIN log :
       (log[i].op = "Execute" /\ ~log[i].busy /\ log[i].outcome = "declared")
         => log[i].returned

\* One row, the end of the result twice, and then a second Execute that
\* returned true.
C22_Witness ==
  /\ Len(log) = 5
  /\ log[1].op = "Execute" /\ log[1].returned /\ Len(log[1].rows) = 1
  /\ log[2].op = "FetchOne" /\ log[2].row.has_value
  /\ log[3].op = "FetchOne" /\ ~log[3].row.has_value
  /\ log[4].op = "FetchOne" /\ ~log[4].row.has_value
  /\ log[5].op = "Execute" /\ log[5].returned

\* ---- the SchemaInfo of the relational migration

\* The indexes of the foreign keys of the schema that satisfy a test, in
\* increasing order.
RECURSIVE IndexesFrom(_, _)
IndexesFrom(wanted, i) ==
  IF i > Len(schema.foreign_keys) THEN <<>>
  ELSE (IF i \in wanted THEN <<i>> ELSE <<>>) \o IndexesFrom(wanted, i + 1)

\* C23: in the SchemaInfo the migration works on, a table's
\* primary_key_referenced is true exactly when some foreign key has the
\* table as parent_table, and its foreign_keys are exactly the indexes of
\* the foreign keys that have it as child_table, in increasing order.
C23_BackfilledTables ==
  \A t \in DOMAIN schema.tables :
    /\ schema.tables[t].primary_key_referenced
         <=> \E i \in DOMAIN schema.foreign_keys :
               schema.foreign_keys[i].parent_table = t
    /\ schema.tables[t].foreign_keys
         = IndexesFrom({i \in DOMAIN schema.foreign_keys :
                          schema.foreign_keys[i].child_table = t}, 1)

\* A schema with a table that is child of three foreign keys and parent of
\* none, and a referenced table that is child of none.
C23_Witness ==
  /\ \E t \in DOMAIN schema.tables :
       /\ Len(schema.tables[t].foreign_keys) = 3
       /\ ~schema.tables[t].primary_key_referenced
  /\ \E t \in DOMAIN schema.tables :
       /\ schema.tables[t].primary_key_referenced
       /\ schema.tables[t].foreign_keys = <<>>

\* ------------------------------------ the metadata rows of the reflector

\* Number of metadata queries whose result is grouped in one run.
MaxReflections == 2

\* GetTableIndex: the position of the table with that schema and name. The
\* rows below name tables of the catalog only, so the LOG(FATAL) of a
\* missing table is never taken.
GetTableIndex(tables, table_schema, table_name) ==
  CHOOSE i \in DOMAIN tables :
    /\ tables[i].schema = table_schema
    /\ tables[i].name = table_name
    /\ \A j \in 1..(i - 1) :
         ~(tables[j].schema = table_schema /\ tables[j].name = table_name)

\* GetColumnIndex: the position of the first column with that name.
GetColumnIndex(columns, column_name) ==
  CHOOSE c \in DOMAIN columns :
    /\ columns[c] = column_name
    /\ \A d \in 1..(c - 1) : columns[d] # column_name

\* The constraint names of the source, in the order ORDER BY gives them.
ConstraintNames == <<"PRIMARY", "actor_fk", "cast_fk", "movie_fk", "title_key">>

NameRank(constraint_name) ==
  CHOOSE r \in DOMAIN ConstraintNames : ConstraintNames[r] = constraint_name

\* A row of the foreign-key query: the seven selected strings, and the
\* ordinal position the query orders by but does not select.
ForeignKeyRow(constraint_name, ordinal_position, child, child_column, parent, parent_column) ==
  [child_table |-> child[2], parent_table |-> parent[2],
   constraint_name |-> constraint_name,
   ordinal_position |-> ordinal_position,
   child_column |-> child_column, parent_column |-> parent_column,
   child_schema |-> child[1], parent_schema |-> parent[1]]

\* The foreign-key constraints the source may declare, each as the set of
\* its rows. Two of them carry the name actor_fk: one on imdb.roles, one on
\* public.actors.
SourceForeignKeys ==
  { { ForeignKeyRow("actor_fk", 1, <<"imdb", "roles">>, "actor_id",
                    <<"public", "actors">>, "actor_id") },
    { ForeignKeyRow("actor_fk", 1, <<"public", "actors">>, "name",
                    <<"imdb", "roles">>, "characters") },
    { ForeignKeyRow("movie_fk", 1, <<"imdb", "roles">>, "movie_id",
                    <<"public", "movies">>, "movie_id") },
    { ForeignKeyRow("cast_fk", 1, <<"imdb", "roles">>, "characters",
                    <<"public", "actors">>, "name"),
      ForeignKeyRow("cast_fk", 2, <<"imdb", "roles">>, "actor_id",
                    <<"public", "actors">>, "actor_id") } }

\* A row of the unique-constraint query: the four selected strings.
UniqueConstraintRow(constraint_name, table, column_name) ==
  [table_schema |-> table[1], table_name |-> table[2],
   column_name |-> column_name,
   constraint_name |-> constraint_name]

\* The UNIQUE and PRIMARY KEY constraints the source may declare, each as
\* the set of its rows. Two primary keys carry the name PRIMARY.
SourceUniqueConstraints ==
  { { UniqueConstraintRow("PRIMARY", <<"public", "actors">>, "actor_id") },
    { UniqueConstraintRow("PRIMARY", <<"imdb", "roles">>, "movie_id"),
      UniqueConstraintRow("PRIMARY", <<"imdb", "roles">>, "actor_id") },
    { UniqueConstraintRow("title_key", <<"public", "movies">>, "title") } }

\* Every order of a set of rows.
RowOrders(rows) ==
  { s \in [1..Cardinality(rows) -> rows] :
      \A i, j \in DOMAIN s : i # j => s[i] # s[j] }

\* The results the foreign-key query may deliver: the rows of the declared
\* constraints, ORDER BY constraint_name, ordinal_position.
ForeignKeyResults ==
  UNION { { s \in RowOrders(UNION declared) :
              \A i, j \in DOMAIN s :
                i < j =>
                  \/ NameRank(s[i].constraint_name)
                       < NameRank(s[j].constraint_name)
                  \/ /\ s[i].constraint_name = s[j].constraint_name
                     /\ s[i].ordinal_position <= s[j].ordinal_position }
          : declared \in SUBSET SourceForeignKeys }

\* The results the unique-constraint query may deliver: the rows of the
\* declared constraints, ORDER BY constraint_name.
UniqueConstraintResults ==
  UNION { { s \in RowOrders(UNION declared) :
              \A i, j \in DOMAIN s :
                i < j => NameRank(s[i].constraint_name)
                           <= NameRank(s[j].constraint_name) }
          : declared \in SUBSET SourceUniqueConstraints }

\* The locals of the grouping loop of ListAllForeignKeys before the first
\* row; child_table and parent_table of the current key are not set yet.
NoForeignKeys ==
  [foreign_keys |-> <<>>,
   current_foreign_key |-> [child_table |-> 0, parent_table |-> 0,
                            child_columns |-> <<>>, parent_columns |-> <<>>],
   prev_foreign_key_name |-> ""]

\* One iteration of the loop of ListAllForeignKeys (both dialects).
ForeignKeyIteration(tables, locals, row) ==
  LET child_table == GetTableIndex(tables, row.child_schema, row.child_table)
      child_column ==
        GetColumnIndex(tables[child_table].columns, row.child_column)
      parent_table ==
        GetTableIndex(tables, row.parent_schema, row.parent_table)
      parent_column ==
        GetColumnIndex(tables[parent_table].columns, row.parent_column)
      current == locals.current_foreign_key
      renamed == row.constraint_name # locals.prev_foreign_key_name
      push == renamed /\ current.child_columns # <<>>
      started ==
        IF renamed
        THEN [child_table |-> child_table, parent_table |-> parent_table,
              child_columns |-> IF push THEN <<>> ELSE current.child_columns,
              parent_columns |-> IF push THEN <<>>
                                 ELSE current.parent_columns]
        ELSE current
  IN [foreign_keys |-> IF push THEN Append(locals.foreign_keys, current)
                       ELSE locals.foreign_keys,
      current_foreign_key |->
        [started EXCEPT !.child_columns = Append(@, child_column),
                        !.parent_columns = Append(@, parent_column)],
      prev_foreign_key_name |-> row.constraint_name]

RECURSIVE ForeignKeyLoop(_, _, _, _)
ForeignKeyLoop(tables, locals, rows, i) ==
  IF i > Len(rows) THEN locals
  ELSE ForeignKeyLoop(tables, ForeignKeyIteration(tables, locals, rows[i]),
                      rows, i + 1)

\* ListAllForeignKeys on the rows its query delivered.
ForeignKeysOfRows(tables, rows) ==
  LET locals == ForeignKeyLoop(tables, NoForeignKeys, rows, 1)
  IN IF locals.current_foreign_key.child_columns # <<>>
     THEN Append(locals.foreign_keys, locals.current_foreign_key)
     ELSE locals.foreign_keys

\* The dialects with a reflector.
Dialects == {"postgresql", "mysql"}

\* The locals of the grouping loop of ListAllUniqueConstraints before the
\* first row; a UniqueConstraint is the pair (table, columns).
NoUniqueConstraints ==
  [constraints |-> <<>>,
   current_constraint |-> <<0, <<>>>>,
   prev_constraint_name |-> "",
   prev_table |-> 0]

\* One iteration of the loop of ListAllUniqueConstraints. The MySQL loop
\* also starts a constraint when the table differs from the previous row's;
\* the PostgreSQL loop compares the constraint name only.
UniqueConstraintIteration(dialect, tables, locals, row) ==
  LET table == GetTableIndex(tables, row.table_schema, row.table_name)
      column == GetColumnIndex(tables[table].columns, row.column_name)
      current == locals.current_constraint
      renamed ==
        \/ locals.prev_constraint_name # row.constraint_name
        \/ /\ dialect = "mysql"
           /\ locals.prev_table # 0
           /\ locals.prev_table # table
      push == renamed /\ current[2] # <<>>
      started ==
        IF renamed THEN <<table, IF push THEN <<>> ELSE current[2]>>
        ELSE current
  IN [constraints |-> IF push THEN Append(locals.constraints, current)
                      ELSE locals.constraints,
      current_constraint |-> <<started[1], Append(started[2], column)>>,
      prev_constraint_name |-> row.constraint_name,
      prev_table |-> table]

RECURSIVE UniqueConstraintLoop(_, _, _, _, _)
UniqueConstraintLoop(dialect, tables, locals, rows, i) ==
  IF i > Len(rows) THEN locals
  ELSE UniqueConstraintLoop(
         dialect, tables,
         UniqueConstraintIteration(dialect, tables, locals, rows[i]),
         rows, i + 1)

\* ListAllUniqueConstraints of a dialect on the rows its query delivered.
UniqueConstraintsOfRows(dialect, tables, rows) ==
  LET locals ==
        UniqueConstraintLoop(dialect, tables, NoUniqueConstraints, rows, 1)
  IN IF locals.current_constraint[2] # <<>>
     THEN Append(locals.constraints, locals.current_constraint)
     ELSE locals.constraints

\* A reflector that has its tables and has run none of the two queries.
InitReflect ==
  /\ schema = NoSchema
  /\ pc = "reflect"
  /\ ti = 0 /\ ci = 0 /\ fi = 0
  /\ cur = NoRow
  /\ fetched = 0
  /\ log = <<>>
  /\ answer = 0
  /\ delivered = <<>>
  /\ classified = <<>>
  /\ NoMemgraph
  /\ NoSqlClient

Reflected(event) ==
  /\ Len(log) < MaxReflections
  /\ log' = Append(log, event)
  /\ UNCHANGED <<schema, pc, ti, ci, cur, fi, fetched, answer, delivered,
                 classified, graph_vars, sql_client_vars>>

\* ListAllForeignKeys runs on a result of its query.
ReflectForeignKeys ==
  /\ pc = "reflect"
  /\ \E rows \in ForeignKeyResults :
       Reflected([foreign_keys |-> ForeignKeysOfRows(CatalogTables, rows),
                  op |-> "ListAllForeignKeys",
                  fk_rows |-> rows])

\* ListAllUniqueConstraints of one dialect runs on a result of its query.
ReflectUniqueConstraints ==
  /\ pc = "reflect"
  /\ \E dialect \in Dialects, rows \in UniqueConstraintResults :
       Reflected([unique_constraints |->
                    UniqueConstraintsOfRows(dialect, CatalogTables, rows),
                  op |-> "ListAllUniqueConstraints",
                  dialect |-> dialect,
                  uc_rows |-> rows])

\* The databases --source-database may name.
SourceDatabases == {"imdb", "shop"}

\* GetTableName is applied to a table of a source of either dialect that
\* main connected to with a database name; the function is handed the table
\* alone.
NameTable ==
  /\ pc = "reflect"
  /\ \E dialect \in Dialects, database \in SourceDatabases :
       \E t \in DOMAIN CatalogTables :
         Reflected([name |-> GetTableName(CatalogTables[t]),
                    table |-> t,
                    op |-> "GetTableName",
                    dialect |-> dialect,
                    database |-> database])

NextReflect ==
  \/ ReflectForeignKeys
  \/ ReflectUniqueConstraints
  \/ NameTable

SpecReflect == InitReflect /\ [][NextReflect]_vars

\* ---- the reflected constraints

\* C24: every foreign key ListAllForeignKeys returns has child_columns and
\* parent_columns of equal non-zero length, every child column is an index
\* into the columns of the key's child table and every parent column an
\* index into the columns of the key's parent table, for every result
\* ordered by (constraint_name, ordinal_position), two constraints with
\* one name included.
C24_ForeignKeyColumnsValid ==
  \A i \in DOMAIN log :
    log[i].op = "ListAllForeignKeys" =>
      \A k \in DOMAIN log[i].foreign_keys :
        LET fk == log[i].foreign_keys[k]
        IN /\ Len(fk.child_columns) = Len(fk.parent_columns)
           /\ Len(fk.child_columns) > 0
           /\ fk.child_table \in DOMAIN CatalogTables
           /\ fk.parent_table \in DOMAIN CatalogTables
           /\ \A c \in DOMAIN fk.child_columns :
                fk.child_columns[c]
                  \in DOMAIN CatalogTables[fk.child_table].columns
           /\ \A c \in DOMAIN fk.parent_columns :
                fk.parent_columns[c]
                  \in DOMAIN CatalogTables[fk.parent_table].columns

\* The (constraint name, table) groups of a result of the unique-constraint
\* query.
ConstraintGroups(rows) ==
  { <<rows[r].constraint_name,
      GetTableIndex(CatalogTables, rows[r].table_schema, rows[r].table_name)>>
    : r \in DOMAIN rows }

\* The column indexes the rows of a group name, for the group's own table.
GroupColumns(rows, group) ==
  { GetColumnIndex(CatalogTables[group[2]].columns, rows[r].column_name) :
      r \in { q \in DOMAIN rows :
                /\ rows[q].constraint_name = group[1]
                /\ GetTableIndex(CatalogTables, rows[q].table_schema,
                                 rows[q].table_name) = group[2] } }

\* C25: in both dialects and for every result ordered by constraint name,
\* the unique constraints returned are in one-to-one correspondence with
\* the (constraint name, table) groups of the rows: one constraint per
\* group, on the group's table, with exactly the group's columns, each a
\* valid index into the columns of that table.
C25_UniqueConstraintsPerGroup ==
  \A i \in DOMAIN log :
    log[i].op = "ListAllUniqueConstraints" =>
      LET rows == log[i].uc_rows
          ucs == log[i].unique_constraints
          groups == ConstraintGroups(rows)
      IN /\ Len(ucs) = Cardinality(groups)
         /\ \A g \in groups :
              \E k \in DOMAIN ucs :
                /\ ucs[k][1] = g[2]
                /\ { ucs[k][2][c] : c \in DOMAIN ucs[k][2] }
                     = GroupColumns(rows, g)
                /\ Len(ucs[k][2]) = Cardinality(GroupColumns(rows, g))
         /\ \A k \in DOMAIN ucs :
              \A c \in DOMAIN ucs[k][2] :
                ucs[k][2][c] \in DOMAIN CatalogTables[ucs[k][1]].columns

\* The schema whose tables the dialect addresses without a schema name.
DefaultSchema(dialect, database) ==
  IF dialect = "postgresql" THEN "public" ELSE database

\* C26: the canonical name of a table is the bare table name when the
\* table's schema is the dialect's default schema (public for PostgreSQL,
\* the database of the connection for MySQL), and the schema, an underscore
\* and the table name otherwise.
C26_CanonicalName ==
  \A i \in DOMAIN log :
    log[i].op = "GetTableName" =>
      LET table == CatalogTables[log[i].table]
      IN log[i].name
           = IF table.schema = DefaultSchema(log[i].dialect, log[i].database)
             THEN table.name
             ELSE table.schema \o "_" \o table.name

\* ------------------------------------------------------ the command line

\* uint16_t
Uint16(n) == n % 65536

GetSourcePort(port, kind) ==
  IF port = 0
  THEN CASE kind = "memgraph" -> 7687
         [] kind = "postgresql" -> 5432
         [] kind = "mysql" -> 3306
         [] OTHER -> Uint16(port)
  ELSE Uint16(port)

DoEndpointsMatch(host1, port1, host2, port2) ==
  host1 = host2 /\ port1 = port2

\* The command lines of an invocation, with what the two servers and the
\* migration do when main gets that far: whether each connection is made
\* and whether the migration runs to its end.
Invocations ==
  [source_kind : {"memgraph", "postgresql", "mysql", "oracle"},
   source_host : {"", "127.0.0.1"},
   source_port : {0, 7687, 65536},
   source_database : {"", "imdb"},
   destination_host : {"127.0.0.1"},
   destination_port : {7687, 7688},
   destination_connects : BOOLEAN,
   source_connects : BOOLEAN,
   migration_completes : BOOLEAN]

\* What an invocation did: its exit status (0 for a return from main, that
\* of SIGABRT for a failed CHECK), whether it wrote an error message, and the
\* migration it started.
Exited(aborted, reported, migration) ==
  [exit_code |-> IF aborted THEN 134 ELSE 0,
   reported |-> reported,
   migration |-> migration]

\* main: the CHECKs on the options, the two connections, the migration of
\* the source kind, and return 0.
main(flags) ==
  LET source_port == GetSourcePort(flags.source_port, flags.source_kind)
  IN IF flags.source_host = "" \/ source_port = 0
     THEN Exited(TRUE, TRUE, "none")
     ELSE IF DoEndpointsMatch(flags.source_host, source_port,
                              flags.destination_host,
                              Uint16(flags.destination_port))
     THEN Exited(TRUE, TRUE, "none")
     ELSE IF ~flags.destination_connects
     THEN Exited(TRUE, TRUE, "none")
     ELSE IF flags.source_kind = "memgraph"
     THEN IF ~flags.source_connects
          THEN Exited(TRUE, TRUE, "none")
          ELSE IF flags.migration_completes
               THEN Exited(FALSE, FALSE, "MigrateMemgraphDatabase")
               ELSE Exited(TRUE, TRUE, "MigrateMemgraphDatabase")
     ELSE IF flags.source_kind \in {"postgresql", "mysql"}
     THEN IF flags.source_database = "" \/ ~flags.source_connects
          THEN Exited(TRUE, TRUE, "none")
          ELSE IF flags.migration_completes
               THEN Exited(FALSE, FALSE, "MigrateSqlDatabase")
               ELSE Exited(TRUE, TRUE, "MigrateSqlDatabase")
     ELSE Exited(FALSE, TRUE, "none")

\* A process that has not entered main.
InitMain ==
  /\ schema = NoSchema
  /\ pc = "main"
  /\ ti = 0 /\ ci = 0 /\ fi = 0
  /\ cur = NoRow
  /\ fetched = 0
  /\ log = <<>>
  /\ answer = 0
  /\ delivered = <<>>
  /\ classified = <<>>
  /\ NoMemgraph
  /\ NoSqlClient

\* The process runs main on its command line and exits.
RunMain ==
  /\ pc = "main"
  /\ \E flags \in Invocations :
       log' = <<[op |-> "main", flags |-> flags, exited |-> main(flags)]>>
  /\ pc' = "exited"
  /\ UNCHANGED <<schema, ti, ci, cur, fi, fetched, answer, delivered,
                 classified, graph_vars, sql_client_vars>>

NextMain == RunMain

SpecMain == InitMain /\ [][NextMain]_vars

\* The options main accepts: a source host, a source port that is not 0
\* after the default of the kind is applied, endpoints that differ, one of
\* the three source kinds, and a database name for the relational ones.
ValidOptions(flags) ==
  /\ flags.source_host # ""
  /\ GetSourcePort(flags.source_port, flags.source_kind) # 0
  /\ ~DoEndpointsMatch(flags.source_host,
                       GetSourcePort(flags.source_port, flags.source_kind),
                       flags.destination_host, Uint16(flags.destination_port))
  /\ flags.source_kind \in {"memgraph", "postgresql", "mysql"}
  /\ flags.source_kind \in {"postgresql", "mysql"}
       => flags.source_database # ""

\* C27: an invocation with invalid options reports the error, starts no
\* migration and ends with a non-zero exit status; this includes a source
\* kind that is none of memgraph, postgresql and mysql.
C27_InvalidOptionsFail ==
  \A i \in DOMAIN log :
    (log[i].op = "main" /\ ~ValidOptions(log[i].flags)) =>
      /\ log[i].exited.reported
      /\ log[i].exited.migration = "none"
      /\ log[i].exited.exit_code # 0

\* ------------------------------------------------- the cells of the source

\* Number of cells converted in one run.
MaxConversions == 2

\* mg::Value of the types the conversions produce besides Null, String and
\* Int; a double is the pair of numerator and denominator of its value.
BoolValue(b) == [type |-> "Bool", bool |-> b]
DoubleValue(d) == [type |-> "Double", double |-> d]
ListValue(l) == [type |-> "List", list |-> l]

\* What a conversion comes to: the value it returns, or the end of the
\* process at a failed CHECK or a LOG(FATAL).
Converted(value) == [value |-> value, fatal |-> FALSE]
Fatal == [value |-> Null, fatal |-> TRUE]

\* PostgresqlOidType
kBool == 16
kInt8 == 20
kInt4 == 23
kText == 25
kFloat8 == 701
kInt4Array == 1007
kTextArray == 1009
kVarchar == 1043
kNumeric == 1700

\* OIDs of date and uuid, which PostgresqlOidType does not list.
OtherOids == {1082, 2950}

\* pqxx's reading of the text of a field as bool, int64_t and double, for
\* the texts the fields below carry.
AsBool(text) == text = "t"

AsInt64(text) ==
  CASE text = "7" -> 7
    [] text = "1" -> 1
    [] text = "-1" -> 0 - 1

AsDouble(text) ==
  CASE text = "1.5" -> <<3, 2>>
    [] text = "2" -> <<2, 1>>

\* The element conversions ConvertField hands to ParseArray.
ConvertElement(type, el) ==
  CASE type = kInt4Array -> IntValue(AsInt64(el))
    [] type = kTextArray -> Str(el)

\* ParseArray from juncture i on; the stack holds one vector per open row
\* above the vector of the result.
RECURSIVE ParseArrayFrom(_, _, _, _)
ParseArrayFrom(type, junctures, i, stack) ==
  IF i > Len(junctures)
  THEN IF Len(stack) = 1 /\ Len(stack[1]) = 1
       THEN Converted(stack[1][1]) ELSE Fatal
  ELSE LET item == junctures[i]
           top == Len(stack)
       IN CASE item[1] = "row_start" ->
                 ParseArrayFrom(type, junctures, i + 1, Append(stack, <<>>))
            [] item[1] = "row_end" ->
                 IF top < 2 THEN Fatal
                 ELSE ParseArrayFrom(
                        type, junctures, i + 1,
                        [SubSeq(stack, 1, top - 1) EXCEPT
                           ![top - 1] = Append(@, ListValue(stack[top]))])
            [] item[1] = "string_value" ->
                 IF top = 0 THEN Fatal
                 ELSE ParseArrayFrom(
                        type, junctures, i + 1,
                        [stack EXCEPT
                           ![top] = Append(@, ConvertElement(type, item[2]))])
            [] item[1] = "null_value" ->
                 IF top = 0 THEN Fatal
                 ELSE ParseArrayFrom(type, junctures, i + 1,
                                     [stack EXCEPT ![top] = Append(@, Null)])

ParseArray(field) == ParseArrayFrom(field.type, field.junctures, 1, << <<>> >>)

\* ConvertField of the PostgreSQL source with null for the types outside
\* the switch.
PostgresqlConvertField_NullForOthers(field) ==
  IF field.is_null THEN Converted(Null)
  ELSE CASE field.type = kBool -> Converted(BoolValue(AsBool(field.text)))
         [] field.type \in {kInt8, kInt4} ->
              Converted(IntValue(AsInt64(field.text)))
         [] field.type \in {kText, kVarchar} -> Converted(Str(field.text))
         [] field.type \in {kFloat8, kNumeric} ->
              Converted(DoubleValue(AsDouble(field.text)))
         [] field.type \in {kInt4Array, kTextArray} -> ParseArray(field)
         [] OTHER -> Converted(Null)

\* ConvertField of the PostgreSQL source, for the OIDs above.
PostgresqlConvertField(field) ==
  IF field.is_null THEN Converted(Null)
  ELSE CASE field.type = kBool -> Converted(BoolValue(AsBool(field.text)))
         [] field.type \in {kInt8, kInt4} ->
              Converted(IntValue(AsInt64(field.text)))
         [] field.type \in {kText, kVarchar} -> Converted(Str(field.text))
         [] field.type \in {kFloat8, kNumeric} ->
              Converted(DoubleValue(AsDouble(field.text)))
         [] field.type \in {kInt4Array, kTextArray} -> ParseArray(field)
         [] OTHER -> Converted(Str(field.text))

\* A pqxx::field: whether it is null, the OID of its type, its text, and
\* for an array the junctures the array parser of pqxx reads from the text.
Field(is_null, type, text, junctures) ==
  [type |-> type, text |-> text, junctures |-> junctures,
   is_null |-> is_null]

\* The fields a PostgreSQL row may hold.
PostgresqlFields ==
  { Field(TRUE, kInt4, "", <<>>),
    Field(TRUE, 1082, "", <<>>),
    Field(FALSE, kBool, "t", <<>>),
    Field(FALSE, kBool, "f", <<>>),
    Field(FALSE, kInt4, "7", <<>>),
    Field(FALSE, kInt8, "-1", <<>>),
    Field(FALSE, kText, "Bale", <<>>),
    Field(FALSE, kVarchar, "", <<>>),
    Field(FALSE, kFloat8, "1.5", <<>>),
    Field(FALSE, kNumeric, "2", <<>>),
    Field(FALSE, kInt4Array, "{1,NULL}",
          << <<"row_start">>, <<"string_value", "1">>, <<"null_value">>,
             <<"row_end">> >>),
    Field(FALSE, kTextArray, "{{a},{b}}",
          << <<"row_start">>, <<"row_start">>, <<"string_value", "a">>,
             <<"row_end">>, <<"row_start">>, <<"string_value", "b">>,
             <<"row_end">>, <<"row_end">> >>),
    Field(FALSE, 1082, "2020-01-02", <<>>),
    Field(FALSE, 2950, "", <<>>),
    Field(FALSE, 2950, "6f1c", <<>>) }

\* A mysqlx::Value: its Value::Type and what it holds (the elements, for an
\* ARRAY).
MysqlValue(type, holds) == [type |-> type, holds |-> holds]

\* ConvertField of the MySQL source; ConvertToList converts the elements of
\* an ARRAY with it. An unsigned integer is read as int64_t (the values
\* below are all less than 2^63).
RECURSIVE MysqlConvertField(_)
MysqlConvertField(value) ==
  CASE value.type \in {"UINT64", "INT64"} -> Converted(IntValue(value.holds))
    [] value.type \in {"FLOAT", "DOUBLE"} ->
         Converted(DoubleValue(value.holds))
    [] value.type = "BOOL" -> Converted(BoolValue(value.holds))
    [] value.type = "STRING" -> Converted(Str(value.holds))
    [] value.type = "ARRAY" ->
         LET elements ==
               [e \in DOMAIN value.holds |->
                  MysqlConvertField(value.holds[e])]
         IN IF \E e \in DOMAIN elements : elements[e].fatal THEN Fatal
            ELSE Converted(ListValue([e \in DOMAIN elements |->
                                        elements[e].value]))
    [] value.type \in {"DOCUMENT", "RAW"} -> Fatal
    [] OTHER -> Converted(Null)

\* The values a MySQL row may hold.
MysqlValues ==
  { MysqlValue("VNULL", ""),
    MysqlValue("UINT64", 7),
    MysqlValue("INT64", 0 - 1),
    MysqlValue("FLOAT", <<3, 2>>),
    MysqlValue("DOUBLE", <<2, 1>>),
    MysqlValue("BOOL", TRUE),
    MysqlValue("STRING", "Bale"),
    MysqlValue("STRING", ""),
    MysqlValue("ARRAY", << MysqlValue("INT64", 1), MysqlValue("VNULL", "") >>),
    MysqlValue("ARRAY", << MysqlValue("STRING", "a"),
                           MysqlValue("RAW", "00ff") >>),
    MysqlValue("DOCUMENT", "{}"),
    MysqlValue("RAW", "00ff") }

\* A source that has a row to convert.
InitConvert ==
  /\ schema = NoSchema
  /\ pc = "convert"
  /\ ti = 0 /\ ci = 0 /\ fi = 0
  /\ cur = NoRow
  /\ fetched = 0
  /\ log = <<>>
  /\ answer = 0
  /\ delivered = <<>>
  /\ classified = <<>>
  /\ NoMemgraph
  /\ NoSqlClient

ConvertedCell(event) ==
  /\ Len(log) < MaxConversions
  /\ log' = Append(log, event)
  /\ UNCHANGED <<schema, pc, ti, ci, cur, fi, fetched, answer, delivered,
                 classified, graph_vars, sql_client_vars>>

\* ConvertRow of the PostgreSQL source converts a field.
ConvertPostgresqlField ==
  /\ pc = "convert"
  /\ \E field \in PostgresqlFields :
       ConvertedCell([op |-> "ConvertField", dialect |-> "postgresql",
                      field |-> field,
                      converted |-> PostgresqlConvertField(field)])

\* ConvertRow of the MySQL source converts a value.
ConvertMysqlValue ==
  /\ pc = "convert"
  /\ \E value \in MysqlValues :
       ConvertedCell([op |-> "ConvertField", dialect |-> "mysql",
                      converted |-> MysqlConvertField(value),
                      mysql_value |-> value])

NextConvert ==
  \/ ConvertPostgresqlField
  \/ ConvertMysqlValue

SpecConvert == InitConvert /\ [][NextConvert]_vars

\* ---- cells of a type outside the conversion table

\* The OIDs ConvertField of the PostgreSQL source has a case for.
PostgresqlConversionTable ==
  {kBool, kInt8, kInt4, kText, kVarchar, kFloat8, kNumeric, kInt4Array,
   kTextArray}

\* A MySQL value that is, or as an array holds, a document or raw bytes.
RECURSIVE HoldsDocumentOrRaw(_)
HoldsDocumentOrRaw(value) ==
  \/ value.type \in {"DOCUMENT", "RAW"}
  \/ /\ value.type = "ARRAY"
     /\ \E e \in DOMAIN value.holds : HoldsDocumentOrRaw(value.holds[e])

\* C28 as stated: in both dialects a cell that is not null and whose type
\* is outside the conversion table is converted to a string value, and the
\* conversion never ends the migration and never gives null.
C28_UnknownTypeAsString ==
  \A i \in DOMAIN log :
    log[i].op = "ConvertField" =>
      /\ (/\ log[i].dialect = "postgresql"
          /\ ~log[i].field.is_null
          /\ log[i].field.type \notin PostgresqlConversionTable)
           => /\ ~log[i].converted.fatal
              /\ log[i].converted.value.type = "String"
      /\ (/\ log[i].dialect = "mysql"
          /\ log[i].mysql_value.type \in {"DOCUMENT", "RAW"})
           => /\ ~log[i].converted.fatal
              /\ log[i].converted.value.type = "String"

\* C28, amended: a PostgreSQL field that is not null and whose type is
\* outside the conversion table is converted to the string value of its
\* text; a MySQL value that is a document or raw bytes, or an array that
\* holds one, ends the migration, and every other MySQL value is converted.
C28_UnknownTypePerDialect ==
  \A i \in DOMAIN log :
    log[i].op = "ConvertField" =>
      /\ (/\ log[i].dialect = "postgresql"
          /\ ~log[i].field.is_null
          /\ log[i].field.type \notin PostgresqlConversionTable)
           => log[i].converted = Converted(Str(log[i].field.text))
      /\ log[i].dialect = "mysql"
           => (log[i].converted.fatal
                 <=> HoldsDocumentOrRaw(log[i].mysql_value))

\* A PostgreSQL date converted to a string, and raw bytes of MySQL that
\* ended the migration.
C28_Witness ==
  /\ \E i \in DOMAIN log :
       /\ log[i].op = "ConvertField"
       /\ log[i].dialect = "postgresql"
       /\ ~log[i].field.is_null
       /\ log[i].field.type = 1082
       /\ log[i].converted = Converted(Str("2020-01-02"))
  /\ \E i \in DOMAIN log :
       /\ log[i].op = "ConvertField"
       /\ log[i].dialect = "mysql"
       /\ log[i].mysql_value.type = "RAW"
       /\ log[i].converted.fatal

\* ---- the endpoints of the relationships of the relational migration

\* The labels of the tables the node pass has emitted as nodes.
NodeTableLabels == {CanonicalName(t) : t \in {u \in Tables : classified[u] = "node"}}

C30_NullInIdentityNotTested ==
  /\ Len(EdgeCalls) <= Len(ExpectedEdges)
  /\ (pc \notin {"aborted", "source_failed"} /\ cur = NoRow)
       => Len(EdgeCalls) = Len(ExpectedEdges)
  /\ \A j \in DOMAIN EdgeCalls :
       LET x == ExpectedEdges[j]
           T == Table(x.table)
       IN (~x.rel /\ T.primary_key = <<>>) =>
            /\ DOMAIN EdgeCalls[j].id1 = DOMAIN x.row
            /\ \A i \in DOMAIN x.row :
                 EdgeCalls[j].id1[i] = <<T.columns[i], x.row[i]>>
            /\ (pc = "aborted" /\ EdgeLogIndex(j) = Len(log)) => ~answer.ok

\* A completed run over a node table without primary key that emitted an
\* edge whose id1 holds a null.
C30_Witness ==
  /\ pc = "done"
  /\ \E j \in DOMAIN EdgeCalls :
       /\ ~ExpectedEdges[j].rel
       /\ Table(ExpectedEdges[j].table).primary_key = <<>>
       /\ \E i \in DOMAIN EdgeCalls[j].id1 : EdgeCalls[j].id1[i][2] = Null

====
